---- MODULE Spec2Model ----
(***************************************************************************)
(* A model of the live motion-estimation subsystem of map-engine:          *)
(* SimpleNetworkBuffer, KinematicPhysicsModel, TimeBasedConfidenceModel,   *)
(* VarianceIntentModel, StandardMotionEngine and the LiveMotionController  *)
(* that drives one engine per entity from requestAnimationFrame.           *)
(*                                                                         *)
(* Numbers.  The code computes in IEEE doubles; the model computes in      *)
(* integers on fixed grids:                                                *)
(*   time            milliseconds (Date.now(), timestamps, policy fields)  *)
(*   latitude/lng    nano-degrees (1e-9 degree)                            *)
(*   heading         milli-degrees inside the engine, degrees in a report  *)
(*   speed           mm/s inside the engine, km/h in a report              *)
(*   distances       millimetres (uncertaintyRadius), metres (haversine)   *)
(* A halving that leaves the grid is rounded down to the grid.  Reported   *)
(* bearings are multiples of 90 degrees and positions stay within a few    *)
(* hundredths of a degree of (0,0), where the great-circle formulas of     *)
(* utils/geo agree with the planar ones below the grid's resolution.       *)
(* An absent optional number is 0 where the code only tests it with `||`   *)
(* or truthiness (timestamp, speedKmh) and NoBearing where the code tests  *)
(* `!== undefined` (bearing).                                              *)
(***************************************************************************)
EXTENDS Integers, Sequences, FiniteSets, TLC

VARIABLES
    clock,                  \* Date.now(), in ms
    engines,                \* LiveMotionController.engines: id -> engine
    order,                  \* insertion order of the Map's keys
    policy,                 \* the policy given to the constructor
    hasWindow,              \* typeof window !== "undefined"
    liveAnimationFrameId,   \* the scheduling handle, 0 for null
    lastLiveFrameTime,
    pending,                \* requestAnimationFrame handles not yet fired or cancelled
    nextHandle,             \* the next handle requestAnimationFrame returns
    frame,                  \* the frame callback in progress, if any
    adapter,                \* what the MarkerAdapter has received (ghost)
    sched,                  \* history of the scheduling calls (ghost)
    liveVehicles,           \* the VehicleLike-based controller's Map: id -> LiveUnitState
    legacyCall,             \* the most recent call of that controller (ghost)
    used                    \* the calls made so far

vars == <<clock, engines, order, policy, hasWindow, liveAnimationFrameId,
          lastLiveFrameTime, pending, nextHandle, frame, adapter, sched,
          liveVehicles, legacyCall, used>>

----------------------------------------------------------------------------
(* Bounds of the model *)

(* How many calls (input, tick, a clock advance) one behaviour of the engine *)
(* specification makes.                                                     *)
MaxSteps == 5

(* How many calls (input, tick) one behaviour of the specification that    *)
(* fills the intent window makes.                                          *)
MaxIntentSteps == 7

(* How many calls (input, tick, getEstimate, a clock advance) one          *)
(* behaviour of the specification that keeps a returned estimate makes.    *)
MaxEstimateSteps == 6

(* How many calls (input, tick, a clock advance) one behaviour of the      *)
(* specification whose reports are stamped on receipt makes.               *)
MaxAgeSteps == 6

(* How many headings the specification of the intent model alone feeds it. *)
MaxWindowSteps == 4

(* How many calls of the VehicleLike-based controller's methods, frames    *)
(* and clock advances one behaviour of its specification makes.            *)
MaxLegacySteps == 5

(* How many calls of the controller's methods, frames begun and clock      *)
(* advances one behaviour of the controller specification makes.           *)
MaxCtlSteps == 6

(* The wall clock when the model starts, and what the clock may advance by. *)
ClockStart == 1000
ClockSteps == {50, 150, 250}

(* A caller of tick(now) passes the wall clock or a value this far behind it. *)
TickLag == {0, 50}

----------------------------------------------------------------------------
(* Program constants *)

NoBearing == -1
maxBufferSize == 50
windowSize == 5
BaseUncertaintyMm == 5000

(* Milli-degrees in a full and in a half turn. *)
FullTurn == 360 * 1000
HalfTurn == 180 * 1000
QuarterTurn == 90 * 1000

(* Nano-degrees of arc per metre on the two spheres utils/geo uses:        *)
(* 1e9 * 180 / (pi * R), R = 6378137 (extrapolatePosition) and R = 6371e3  *)
(* (haversineDistance).                                                    *)
NanoDegPerMetreWGS == 8983
NanoDegPerMetreMean == 8993

----------------------------------------------------------------------------
(* utils/geo *)

(* JavaScript's %: the remainder takes the sign of the dividend. *)
JsRem(a, n) == IF a >= 0 THEN a % n ELSE 0 - ((0 - a) % n)

Abs(x) == IF x < 0 THEN 0 - x ELSE x

(* a * b / c without leaving 32 bits, for 0 <= a, b and c = 1000. *)
MulDivK(a, b) == (a \div 1000) * b + ((a % 1000) * b) \div 1000

(* lerpPosition(pos1, pos2, t) with t = halves / 2. *)
lerpPosition(pos1, pos2, halves) ==
    [lat |-> pos1.lat + ((pos2.lat - pos1.lat) * halves) \div 2,
     lon |-> pos1.lon + ((pos2.lon - pos1.lon) * halves) \div 2]

(* lerpAngle(start, end, t) with t = halves / 2, angles in milli-degrees. *)
lerpAngle(start, end, halves) ==
    LET diff == JsRem(JsRem(end - start + HalfTurn, FullTurn) + FullTurn, FullTurn)
                    - HalfTurn
    IN  JsRem(start + (diff * halves) \div 2 + FullTurn, FullTurn)

(* cos and sin of a bearing that is a multiple of 90 degrees. *)
CosDeg(h) ==
    LET q == (h % FullTurn) \div QuarterTurn
    IN  CASE q = 0 -> 1 [] q = 1 -> 0 [] q = 2 -> 0 - 1 [] OTHER -> 0

SinDeg(h) ==
    LET q == (h % FullTurn) \div QuarterTurn
    IN  CASE q = 0 -> 0 [] q = 1 -> 1 [] q = 2 -> 0 [] OTHER -> 0 - 1

(* speedMps * deltaSeconds, in mm, from mm/s and ms. *)
TravelMm(speedMmS, dtMs) == MulDivK(speedMmS, dtMs)

(* extrapolatePosition(lat, lon, speedMps, bearingDeg, deltaSeconds). *)
extrapolatePosition(lat, lon, speedMmS, bearing, dtMs) ==
    LET dist  == TravelMm(speedMmS, dtMs)
        delta == MulDivK(dist, NanoDegPerMetreWGS)
    IN  [lat |-> lat + delta * CosDeg(bearing),
         lon |-> lon + delta * SinDeg(bearing)]

(* lerpPosition(pos1, pos2, t) with t = num / den. *)
lerpPositionBy(pos1, pos2, num, den) ==
    [lat |-> pos1.lat + ((pos2.lat - pos1.lat) * num) \div den,
     lon |-> pos1.lon + ((pos2.lon - pos1.lon) * num) \div den]

(* lerpAngle(start, end, t) with t = num / den, angles in milli-degrees. *)
lerpAngleBy(start, end, num, den) ==
    LET diff == JsRem(JsRem(end - start + HalfTurn, FullTurn) + FullTurn, FullTurn)
                    - HalfTurn
    IN  JsRem(start + (diff * num) \div den + FullTurn, FullTurn)

(* computeBearing(lat1, lon1, lat2, lon2), in milli-degrees, for two      *)
(* points on one meridian or on one parallel near the equator.            *)
computeBearing(lat1, lon1, lat2, lon2) ==
    IF lon2 = lon1 THEN (IF lat2 >= lat1 THEN 0 ELSE HalfTurn)
    ELSE IF lon2 > lon1 THEN QuarterTurn ELSE 3 * QuarterTurn

RECURSIVE SqrtSearch(_, _, _)
SqrtSearch(n, lo, hi) ==
    IF hi - lo <= 1 THEN lo
    ELSE LET mid == (lo + hi) \div 2
         IN  IF mid * mid <= n THEN SqrtSearch(n, mid, hi) ELSE SqrtSearch(n, lo, mid)

ISqrt(n) == SqrtSearch(n, 0, 30000)

(* haversineDistance(coords1, coords2), in whole metres. *)
haversineDistance(coords1, coords2) ==
    LET dLat == Abs(coords2.lat - coords1.lat) \div NanoDegPerMetreMean
        dLon == Abs(coords2.lon - coords1.lon) \div NanoDegPerMetreMean
    IN  ISqrt(dLat * dLat + dLon * dLon)

----------------------------------------------------------------------------
(* SimpleNetworkBuffer.  A buffer is [buffer, lastProcessedTimestamp]. *)

SortKey(packet) == packet.timestamp     \* (a.timestamp || 0): absent is 0

(* Array.prototype.sort is stable: insert x into a sorted sequence behind  *)
(* every element whose key is not larger, then sort the rest the same way. *)
InsertStable(sorted, x) ==
    LET before == Cardinality({i \in 1..Len(sorted) : SortKey(sorted[i]) <= SortKey(x)})
    IN  SubSeq(sorted, 1, before) \o <<x>> \o SubSeq(sorted, before + 1, Len(sorted))

RECURSIVE SortByTimestamp(_)
SortByTimestamp(s) ==
    IF s = <<>> THEN <<>>
    ELSE InsertStable(SortByTimestamp(SubSeq(s, 1, Len(s) - 1)), s[Len(s)])

(* push() without the test against the watermark. *)
UnfilteredBufferPush(b, packet, now) ==
    LET sorted == SortByTimestamp(Append(b.buffer, packet))
    IN  [b EXCEPT !.buffer = IF Len(sorted) > maxBufferSize
                             THEN Tail(sorted) ELSE sorted]

(* push() that trims a full buffer at its end. *)
DropNewestPush(b, packet, now) ==
    LET ts == IF packet.timestamp # 0 THEN packet.timestamp ELSE now
    IN  IF ts < b.lastProcessedTimestamp THEN b
        ELSE LET sorted == SortByTimestamp(Append(b.buffer, packet))
             IN  [b EXCEPT !.buffer = IF Len(sorted) > maxBufferSize
                                      THEN SubSeq(sorted, 1, maxBufferSize) ELSE sorted]

BufferPush(b, packet, now) ==
    LET ts == IF packet.timestamp # 0 THEN packet.timestamp ELSE now
    IN  IF ts < b.lastProcessedTimestamp THEN b
        ELSE LET sorted == SortByTimestamp(Append(b.buffer, packet))
             IN  [b EXCEPT !.buffer = IF Len(sorted) > maxBufferSize
                                      THEN Tail(sorted) ELSE sorted]

(* pop() on a non-empty buffer: the buffer afterwards. *)
BufferPop(b, now) ==
    LET next == Head(b.buffer)
    IN  [b EXCEPT !.buffer = Tail(b.buffer),
                  !.lastProcessedTimestamp =
                      IF next.timestamp # 0 THEN next.timestamp ELSE now]

----------------------------------------------------------------------------
(* KinematicPhysicsModel.  The model is [currentSpeed, currentHeading]. *)

(* step() that carries the uncertainty over as it is. *)
SteadyUncertaintyStep(ph, pose, dtMs) ==
    LET newPos == extrapolatePosition(pose.lat, pose.lng, ph.currentSpeed,
                                      ph.currentHeading, dtMs)
    IN  [lat |-> newPos.lat,
         lng |-> newPos.lon,
         heading |-> ph.currentHeading,
         speed |-> ph.currentSpeed,
         uncertaintyRadius |-> pose.uncertaintyRadius]

PhysicsStep(ph, pose, dtMs) ==
    LET newPos == extrapolatePosition(pose.lat, pose.lng, ph.currentSpeed,
                                      ph.currentHeading, dtMs)
    IN  [lat |-> newPos.lat,
         lng |-> newPos.lon,
         heading |-> ph.currentHeading,
         speed |-> ph.currentSpeed,
         uncertaintyRadius |->
             pose.uncertaintyRadius + TravelMm(ph.currentSpeed, dtMs) \div 10]

PhysicsUpdate(ph, observation) ==
    [currentSpeed |-> (observation.speedKmh * 1000000) \div 3600,
     currentHeading |-> IF observation.bearing # NoBearing
                        THEN observation.bearing * 1000
                        ELSE ph.currentHeading]

----------------------------------------------------------------------------
(* TimeBasedConfidenceModel.  The model is [lastUpdateTime, currentTime,   *)
(* policy]; a confidence is the fraction num / den.                        *)

DEFAULT_POLICY ==
    [fullConfidenceMs |-> 5000, decayMs |-> 10000, maxStaleMs |-> 15 * 60 * 1000]

ConfidenceUpdate(c, now) == [c EXCEPT !.lastUpdateTime = now, !.currentTime = now]

(* decay() that restarts the age at every tick. *)
RestartingDecay(c, dtMs) == [c EXCEPT !.currentTime = c.lastUpdateTime + dtMs]

ConfidenceDecay(c, dtMs) == [c EXCEPT !.currentTime = c.currentTime + dtMs]

Age(c) == c.currentTime - c.lastUpdateTime

(* getConfidence with the ramp written without its `1 -`: a confidence that *)
(* rises over the decay window.                                             *)
RisingConfidenceAt(age, p) ==
    IF age < p.fullConfidenceMs THEN [num |-> 1, den |-> 1]
    ELSE IF age < p.fullConfidenceMs + p.decayMs
         THEN [num |-> age - p.fullConfidenceMs, den |-> p.decayMs]
         ELSE [num |-> 0, den |-> 1]

ConfidenceAt(age, p) ==
    IF age < p.fullConfidenceMs THEN [num |-> 1, den |-> 1]
    ELSE IF age < p.fullConfidenceMs + p.decayMs
         THEN LET decayStart == p.fullConfidenceMs
                  decayEnd   == decayStart + p.decayMs
              IN  [num |-> (decayEnd - decayStart) - (age - decayStart),
                   den |-> decayEnd - decayStart]
         ELSE [num |-> 0, den |-> 1]

getConfidence(c) == ConfidenceAt(Age(c), c.policy)

(* getState with the staleness test made first, before the confidence buckets. *)
StaleFirstStateAt(age, p) ==
    IF age > p.maxStaleMs THEN "FROZEN"
    ELSE IF age < p.fullConfidenceMs THEN "REAL"
    ELSE IF ConfidenceAt(age, p).num > 0 THEN "COASTING"
    ELSE "PREDICTED"

StateAt(age, p) ==
    LET confidence == ConfidenceAt(age, p)
    IN  IF age < p.fullConfidenceMs THEN "REAL"
        ELSE IF confidence.num > 0 THEN "COASTING"
        ELSE IF age > p.maxStaleMs THEN "FROZEN"
        ELSE "PREDICTED"

getState(c) == StateAt(Age(c), c.policy)

----------------------------------------------------------------------------
(* VarianceIntentModel: recentBearings, in degrees as reported. *)

(* An update that never evicts: the window grows with every heading. *)
UnboundedIntentUpdate(recentBearings, observation) ==
    IF observation.bearing # NoBearing
    THEN Append(recentBearings, observation.bearing)
    ELSE recentBearings

IntentUpdate(recentBearings, observation) ==
    IF observation.bearing # NoBearing
    THEN LET pushed == Append(recentBearings, observation.bearing)
         IN  IF Len(pushed) > windowSize THEN Tail(pushed) ELSE pushed
    ELSE recentBearings

(* Math.cos and Math.sin of a heading in degrees, in thousandths, rounded *)
(* towards zero, for the headings the reports of the model carry.         *)
CosMilli(d) ==
    CASE d = 0 \/ d = 360 -> 1000
      [] d = 5 -> 996
      [] d = 90 \/ d = 270 -> 0
      [] d = 120 \/ d = 240 -> 0 - 500
      [] d = 125 -> 0 - 573
      [] d = 180 -> 0 - 1000
      [] d = 245 -> 0 - 422

SinMilli(d) ==
    CASE d = 0 \/ d = 180 \/ d = 360 -> 0
      [] d = 5 -> 87
      [] d = 90 -> 1000
      [] d = 120 -> 866
      [] d = 125 -> 819
      [] d = 240 -> 0 - 866
      [] d = 245 -> 0 - 906
      [] d = 270 -> 0 - 1000

(* The loop of calculateCircularVariance: sumCos and sumSin. *)
RECURSIVE SumCos(_)
SumCos(angles) ==
    IF angles = <<>> THEN 0 ELSE CosMilli(Head(angles)) + SumCos(Tail(angles))

RECURSIVE SumSin(_)
SumSin(angles) ==
    IF angles = <<>> THEN 0 ELSE SinMilli(Head(angles)) + SumSin(Tail(angles))

(* The variance computed from the cosines alone. *)
CosineOnlyVariance(angles) ==
    LET sumCos == SumCos(angles)
        R      == Abs(sumCos)
    IN  [num |-> 1000 * Len(angles) - R, den |-> 1000 * Len(angles)]

(* calculateCircularVariance(angles) = 1 - R / N, as the fraction          *)
(* num / den with R in thousandths.                                        *)
calculateCircularVariance(angles) ==
    LET sumCos == SumCos(angles)
        sumSin == SumSin(angles)
        R      == ISqrt(sumCos * sumCos + sumSin * sumSin)
    IN  [num |-> 1000 * Len(angles) - R, den |-> 1000 * Len(angles)]

(* getIntent() whose TURN branch reports 1 - variance, as the STRAIGHT    *)
(* branch does.                                                          *)
ComplementTurnIntent(recentBearings) ==
    IF Len(recentBearings) < 2
    THEN [action |-> "UNKNOWN", confidence |-> [num |-> 0, den |-> 1]]
    ELSE LET variance == calculateCircularVariance(recentBearings)
             rest     == [num |-> variance.den - variance.num, den |-> variance.den]
         IN  IF 100 * variance.num < variance.den
             THEN [action |-> "STRAIGHT", confidence |-> rest]
             ELSE IF 10 * variance.num > variance.den
                  THEN [action |-> "TURN", confidence |-> rest]
                  ELSE [action |-> "STRAIGHT", confidence |-> [num |-> 1, den |-> 2]]

(* getIntent(): the action and the confidence, a fraction. *)
getIntent(recentBearings) ==
    IF Len(recentBearings) < 2
    THEN [action |-> "UNKNOWN", confidence |-> [num |-> 0, den |-> 1]]
    ELSE LET variance == calculateCircularVariance(recentBearings)
         IN  IF 100 * variance.num < variance.den
             THEN [action |-> "STRAIGHT",
                   confidence |-> [num |-> variance.den - variance.num,
                                   den |-> variance.den]]
             ELSE IF 10 * variance.num > variance.den
                  THEN [action |-> "TURN", confidence |-> variance]
                  ELSE [action |-> "STRAIGHT", confidence |-> [num |-> 1, den |-> 2]]

----------------------------------------------------------------------------
(* StandardMotionEngine.  Beside the fields of the class an engine carries *)
(* history fields the code does not have: log, the observations the most   *)
(* recent input or tick applied; prevApplied, the timestamp of the          *)
(* observation applied last before that call (0: none); op, what the most   *)
(* recent call was; nInputs, how many reports input has received; and       *)
(* allStamped, whether each of them carried a timestamp.  It also carries   *)
(* held, the estimate getEstimate returned last as its caller sees it now:  *)
(* estimate.pose is the object the call returned, atCall is what the call   *)
(* returned, and alias tells whether that object is still currentPose.      *)

NoEstimate == [taken |-> FALSE, alias |-> FALSE, estimate |-> <<>>, atCall |-> <<>>]

(* currentPose has been written in place: a held estimate that shares the *)
(* object shows the new values.                                          *)
WrittenInPlace(held, pose) ==
    IF held.alias THEN [held EXCEPT !.estimate.pose = pose] ELSE held

(* currentPose has been assigned a new object. *)
Reassigned(held) == [held EXCEPT !.alias = FALSE]

NoOp ==
    [name |-> "none", now |-> 0, lastTickBefore |-> 0, wasLive |-> FALSE,
     packet |-> <<>>, drained |-> <<>>]

NewEngine(pol) ==
    [buffer      |-> [buffer |-> <<>>, lastProcessedTimestamp |-> 0],
     physics     |-> [currentSpeed |-> 0, currentHeading |-> 0],
     confidence  |-> [lastUpdateTime |-> 0, currentTime |-> 0, policy |-> pol],
     intent      |-> <<>>,
     currentPose |-> [lat |-> 0, lng |-> 0, heading |-> 0, speed |-> 0,
                      uncertaintyRadius |-> 0],
     lastTickTime |-> 0,
     initialized  |-> FALSE,
     log          |-> <<>>,
     prevApplied  |-> 0,
     op           |-> NoOp,
     nInputs      |-> 0,
     allStamped   |-> TRUE,
     held         |-> NoEstimate]

(* processObservation that blends by 0.5 on the first observation too. *)
AlwaysBlendObservation(e, packet, now) ==
    LET corrected == lerpPosition([lat |-> e.currentPose.lat, lon |-> e.currentPose.lng],
                                  [lat |-> packet.lat, lon |-> packet.lng], 1)
        physics   == PhysicsUpdate(e.physics, packet)
        pose      == [e.currentPose EXCEPT
                         !.lat = corrected.lat,
                         !.lng = corrected.lon,
                         !.heading = IF packet.bearing # NoBearing
                                     THEN lerpAngle(@, packet.bearing * 1000, 1)
                                     ELSE @,
                         !.uncertaintyRadius = BaseUncertaintyMm]
    IN  [e EXCEPT !.physics = physics,
                  !.confidence = ConfidenceUpdate(e.confidence, now),
                  !.intent = IntentUpdate(e.intent, packet),
                  !.currentPose = pose,
                  !.held = WrittenInPlace(@, pose),
                  !.log = Append(@, [packet      |-> packet,
                                     live        |-> e.initialized,
                                     stateBefore |-> getState(e.confidence),
                                     poseBefore  |-> e.currentPose,
                                     physBefore  |-> e.physics,
                                     poseAfter   |-> pose,
                                     physAfter   |-> physics])]

processObservation(e, packet, now) ==
    LET physics     == PhysicsUpdate(e.physics, packet)
        confidence  == ConfidenceUpdate(e.confidence, now)
        intent      == IntentUpdate(e.intent, packet)
        blendFactor == IF e.initialized THEN 1 ELSE 2
        corrected   == lerpPosition([lat |-> e.currentPose.lat, lon |-> e.currentPose.lng],
                                    [lat |-> packet.lat, lon |-> packet.lng],
                                    blendFactor)
        angleBlend  == IF e.initialized THEN 1 ELSE 2
        pose        == [e.currentPose EXCEPT
                           !.lat = corrected.lat,
                           !.lng = corrected.lon,
                           !.heading = IF packet.bearing # NoBearing
                                       THEN lerpAngle(@, packet.bearing * 1000, angleBlend)
                                       ELSE @,
                           !.uncertaintyRadius = BaseUncertaintyMm]
    IN  [e EXCEPT !.physics = physics,
                  !.confidence = confidence,
                  !.intent = intent,
                  !.currentPose = pose,
                  !.held = WrittenInPlace(@, pose),
                  !.log = Append(@, [packet      |-> packet,
                                     live        |-> e.initialized,
                                     stateBefore |-> getState(e.confidence),
                                     poseBefore  |-> e.currentPose,
                                     physBefore  |-> e.physics,
                                     poseAfter   |-> pose,
                                     physAfter   |-> physics])]

(* The call begins: the history fields move on. *)
BeginCall(e) ==
    [e EXCEPT !.log = <<>>,
              !.prevApplied = IF e.log = <<>> THEN @
                              ELSE e.log[Len(e.log)].packet.timestamp]

(* input() that bootstraps on any first report, stamped or not. *)
EagerBootstrapInput(e0, packet, now) ==
    LET e      == BeginCall(e0)
        pushed == [e EXCEPT !.buffer = BufferPush(@, packet, now),
                            !.op = [NoOp EXCEPT !.name = "input", !.now = now,
                                                !.wasLive = e.initialized,
                                                !.packet = packet],
                            !.nInputs = @ + 1,
                            !.allStamped = @ /\ packet.timestamp # 0]
    IN  IF ~e.initialized
        THEN [processObservation(pushed, packet, now) EXCEPT
                  !.initialized = TRUE,
                  !.lastTickTime = now]
        ELSE pushed

EngineInput(e0, packet, now) ==
    LET e      == BeginCall(e0)
        pushed == [e EXCEPT !.buffer = BufferPush(@, packet, now),
                            !.op = [NoOp EXCEPT !.name = "input", !.now = now,
                                                !.wasLive = e.initialized,
                                                !.packet = packet],
                            !.nInputs = @ + 1,
                            !.allStamped = @ /\ packet.timestamp # 0]
    IN  IF ~e.initialized /\ packet.timestamp # 0
        THEN [processObservation(pushed, packet, now) EXCEPT
                  !.initialized = TRUE,
                  !.lastTickTime = now]
        ELSE pushed

(* The loop of tick: pop and apply until the buffer is empty. *)
RECURSIVE Drain(_, _)
Drain(e, now) ==
    IF e.buffer.buffer = <<>> THEN e
    ELSE Drain(processObservation([e EXCEPT !.buffer = BufferPop(@, now)],
                                  Head(e.buffer.buffer), now),
               now)

(* The rest of tick with the guard written `dt < 0`: a duplicate tick is *)
(* let through to the decay and the physics step.                        *)
LooseGuardTickAfterDrain(d, now) ==
    LET dtMs == now - d.lastTickTime
        e    == [d EXCEPT !.lastTickTime = now]
    IN  IF dtMs < 0 THEN e
        ELSE LET confidence == ConfidenceDecay(e.confidence, dtMs)
                 state      == getState(confidence)
             IN  [e EXCEPT !.confidence = confidence,
                           !.currentPose =
                               IF state = "FROZEN" THEN [@ EXCEPT !.speed = 0]
                               ELSE PhysicsStep(e.physics, @, dtMs),
                           !.held =
                               IF state = "FROZEN"
                               THEN WrittenInPlace(@, [e.currentPose EXCEPT !.speed = 0])
                               ELSE Reassigned(@)]

(* The rest of tick whose FROZEN branch integrates once more before it  *)
(* zeroes the speed.                                                    *)
IntegratingFrozenTickAfterDrain(d, now) ==
    LET dtMs == now - d.lastTickTime
        e    == [d EXCEPT !.lastTickTime = now]
    IN  IF dtMs <= 0 THEN e
        ELSE LET confidence == ConfidenceDecay(e.confidence, dtMs)
                 state      == getState(confidence)
             IN  [e EXCEPT !.confidence = confidence,
                           !.currentPose =
                               IF state = "FROZEN"
                               THEN [PhysicsStep(e.physics, @, dtMs) EXCEPT !.speed = 0]
                               ELSE PhysicsStep(e.physics, @, dtMs),
                           !.held = Reassigned(@)]

(* What tick does once the buffer is drained. *)
TickAfterDrain(d, now) ==
    LET dtMs == now - d.lastTickTime
        e    == [d EXCEPT !.lastTickTime = now]
    IN  IF dtMs <= 0 THEN e
        ELSE LET confidence == ConfidenceDecay(e.confidence, dtMs)
                 state      == getState(confidence)
             IN  [e EXCEPT !.confidence = confidence,
                           !.currentPose =
                               IF state = "FROZEN" THEN [@ EXCEPT !.speed = 0]
                               ELSE PhysicsStep(e.physics, @, dtMs),
                           !.held =
                               IF state = "FROZEN"
                               THEN WrittenInPlace(@, [e.currentPose EXCEPT !.speed = 0])
                               ELSE Reassigned(@)]

(* tick(now) whose drain is an `if`: it pops and applies one report. *)
SinglePopTick(e0, now, wall) ==
    IF ~e0.initialized THEN [BeginCall(e0) EXCEPT !.op = [NoOp EXCEPT !.name = "tick", !.now = now]]
    ELSE LET b == BeginCall(e0)
             d == IF b.buffer.buffer = <<>> THEN b
                  ELSE processObservation([b EXCEPT !.buffer = BufferPop(@, wall)],
                                          Head(b.buffer.buffer), wall)
         IN  [TickAfterDrain(d, now) EXCEPT
                  !.op = [name |-> "tick", now |-> now,
                          lastTickBefore |-> d.lastTickTime, wasLive |-> TRUE,
                          packet |-> <<>>,
                          drained |-> <<d.confidence, d.currentPose>>]]

(* tick(now) called when Date.now() is wall. *)
EngineTick(e0, now, wall) ==
    IF ~e0.initialized THEN [BeginCall(e0) EXCEPT !.op = [NoOp EXCEPT !.name = "tick", !.now = now]]
    ELSE LET d == Drain(BeginCall(e0), wall)
         IN  [TickAfterDrain(d, now) EXCEPT
                  !.op = [name |-> "tick", now |-> now,
                          lastTickBefore |-> d.lastTickTime, wasLive |-> TRUE,
                          packet |-> <<>>,
                          drained |-> <<d.confidence, d.currentPose>>]]

getEstimate(e) ==
    [pose |-> e.currentPose, state |-> getState(e.confidence),
     intent |-> getIntent(e.intent), timestamp |-> e.lastTickTime]

----------------------------------------------------------------------------
(* The reports and policies the model feeds. *)

Report(id, lat, lng, speedKmh, bearing, timestamp, moving, ignition) ==
    [id |-> id, lat |-> lat, lng |-> lng, speedKmh |-> speedKmh, bearing |-> bearing,
     timestamp |-> timestamp, moving |-> moving, ignition |-> ignition]

(* A moving fix stamped with the starting clock; an older fix two         *)
(* kilometres away; a parked fix (speed 0, moving false, no ignition    *)
(* hint) that carries a bearing; a bare fix with no timestamp, speed or  *)
(* bearing; and a moving fix whose bearing is the upper end, 360, of the *)
(* range a report may use.                                                *)
ReportsFor(id) ==
    {Report(id, 4096, 8192, 36, 90, ClockStart, "true", "on"),
     Report(id, 20000000, 8192, 36, 0, ClockStart - 50, "none", "none"),
     Report(id, 4096, 8192, 0, 180, ClockStart, "false", "none"),
     Report(id, 8192, 4096, 0, NoBearing, 0, "none", "none"),
     Report(id, 4096, 8192, 36, 360, ClockStart, "true", "on")}

(* The policy of the specification's scenario, and one whose maxStaleMs   *)
(* lies inside the full-confidence window.                                *)
Policies ==
    {[fullConfidenceMs |-> 100, decayMs |-> 100, maxStaleMs |-> 300],
     [fullConfidenceMs |-> 100, decayMs |-> 100, maxStaleMs |-> 40]}

(* The entity ids the controller is given. *)
Ids == {"a", "b"}

(* No method of the controller is being recorded as the most recent call. *)
NoCall == [name |-> "none", id |-> "", hit |-> FALSE]

(* The histories the code does not keep: of the scheduling calls (whether  *)
(* stop() has returned with no start() since, the last two calls, the     *)
(* handles given to cancelAnimationFrame), of the registry calls (how     *)
(* many update calls each id has received since it was last removed or    *)
(* cleared), the method called by the most recent step if it was a call   *)
(* (with its id and whether the registry held that id), and the adapter's *)
(* calls.                                                                 *)
NoHistory == [stopped |-> FALSE, calls |-> 0, last |-> "none", prev |-> "none",
              cancelled |-> <<>>, updates |-> [id \in Ids |-> 0], call |-> NoCall]

NoAdapter == [positions |-> 0, position |-> <<>>, rotation |-> <<>>]

(* The VehicleLike-based controller tracks nothing yet, and none of its   *)
(* methods has been called.                                              *)
NoVehicles == [id \in {} |-> 0]

NoLegacyCall == [name |-> "none", vehicle |-> <<>>, tracked |-> FALSE]

(* No frame callback is in progress.  Of a frame in progress the model   *)
(* keeps, beside the callback's locals and the entries forEach has still *)
(* to visit, which ids it has forwarded (done) and which ids were taken  *)
(* out of the registry while it ran (removed).                           *)
NoFrame == [active |-> FALSE, todo |-> <<>>, now |-> 0, time |-> 0, handle |-> 0,
            forwarded |-> 0, done |-> <<>>, removed |-> {}]


----------------------------------------------------------------------------
(* One engine driven directly through input and tick. *)

ctlVars == <<order, policy, hasWindow, liveAnimationFrameId, lastLiveFrameTime,
             pending, nextHandle, frame, adapter, sched, liveVehicles, legacyCall>>

Init ==
    /\ clock = ClockStart
    /\ policy \in Policies
    /\ engines = [id \in {"a"} |-> NewEngine(policy)]
    /\ order = <<"a">>
    /\ hasWindow = TRUE
    /\ liveAnimationFrameId = 0
    /\ lastLiveFrameTime = 0
    /\ pending = {}
    /\ nextHandle = 1
    /\ frame = NoFrame
    /\ adapter = NoAdapter
    /\ sched = NoHistory
    /\ liveVehicles = NoVehicles
    /\ legacyCall = NoLegacyCall
    /\ used = 0

Input(packet) ==
    /\ used < MaxSteps
    /\ engines' = [engines EXCEPT !["a"] = EngineInput(@, packet, clock)]
    /\ used' = used + 1
    /\ UNCHANGED <<clock, ctlVars>>

Tick(lag) ==
    /\ used < MaxSteps
    /\ engines' = [engines EXCEPT !["a"] = EngineTick(@, clock - lag, clock)]
    /\ used' = used + 1
    /\ UNCHANGED <<clock, ctlVars>>

Advance(d) ==
    /\ used < MaxSteps
    /\ clock' = clock + d
    /\ used' = used + 1
    /\ UNCHANGED <<engines, ctlVars>>

Next ==
    \/ \E packet \in ReportsFor("a") : Input(packet)
    \/ \E lag \in TickLag : Tick(lag)
    \/ \E d \in ClockSteps : Advance(d)

Spec == Init /\ [][Next]_vars

----------------------------------------------------------------------------
(* One engine fed with reports that carry headings, to fill and overflow  *)
(* the intent window.  The clock stands still: every tick has dt = 0 and  *)
(* only drains the buffer.                                                *)

(* A parked fix heading 120 degrees; an older parked fix heading east;    *)
(* and a bare fix with no timestamp, speed or bearing.                    *)
IntentReports ==
    {Report("a", 4096, 8192, 0, 120, ClockStart, "none", "none"),
     Report("a", 4096, 8192, 0, 90, ClockStart - 50, "none", "none"),
     Report("a", 4096, 8192, 0, NoBearing, 0, "none", "none")}

IntentInput(packet) ==
    /\ used < MaxIntentSteps
    /\ engines' = [engines EXCEPT !["a"] = EngineInput(@, packet, clock)]
    /\ used' = used + 1
    /\ UNCHANGED <<clock, ctlVars>>

IntentTick ==
    /\ used < MaxIntentSteps
    /\ engines' = [engines EXCEPT !["a"] = EngineTick(@, clock, clock)]
    /\ used' = used + 1
    /\ UNCHANGED <<clock, ctlVars>>

NextIntent ==
    \/ \E packet \in IntentReports : IntentInput(packet)
    \/ IntentTick

SpecIntent == Init /\ [][NextIntent]_vars

----------------------------------------------------------------------------
(* A SimpleNetworkBuffer on its own (the one of engine "a"), driven        *)
(* through push and pop until it is full.  The engine's op records the    *)
(* call: its name, the report pushed or returned (<<>>: none) and whether *)
(* the buffer held maxBufferSize reports when the call began.  The clock  *)
(* stands still.  The buffer cannot grow past maxBufferSize, so the       *)
(* behaviours need no bound on their length.                              *)

(* A fix stamped with the starting clock and an older one. *)
BufferReports ==
    {Report("a", 4096, 8192, 36, 90, ClockStart, "none", "none"),
     Report("a", 4096, 8192, 36, 90, ClockStart - 50, "none", "none")}

(* The older fix and a bare fix with no timestamp. *)
BareReports ==
    {Report("a", 4096, 8192, 36, 90, ClockStart - 50, "none", "none"),
     Report("a", 4096, 8192, 0, NoBearing, 0, "none", "none")}

BufferOp(name, packet, full) == [name |-> name, packet |-> packet, full |-> full]

InitBuffer ==
    /\ clock = ClockStart
    /\ policy = DEFAULT_POLICY
    /\ engines = [id \in {"a"} |-> NewEngine(policy)]
    /\ order = <<"a">>
    /\ hasWindow = TRUE
    /\ liveAnimationFrameId = 0
    /\ lastLiveFrameTime = 0
    /\ pending = {}
    /\ nextHandle = 1
    /\ frame = NoFrame
    /\ adapter = NoAdapter
    /\ sched = NoHistory
    /\ liveVehicles = NoVehicles
    /\ legacyCall = NoLegacyCall
    /\ used = 0

(* push(packet) *)
Push(packet) ==
    /\ engines' = [engines EXCEPT
                       !["a"].buffer = BufferPush(@, packet, clock),
                       !["a"].op = BufferOp("push", packet,
                                            Len(engines["a"].buffer.buffer) = maxBufferSize)]
    /\ UNCHANGED <<clock, ctlVars, used>>

(* pop(): null from an empty buffer. *)
Pop ==
    /\ engines' = [engines EXCEPT
                       !["a"].buffer = IF @.buffer = <<>> THEN @ ELSE BufferPop(@, clock),
                       !["a"].op = BufferOp("pop",
                                            IF engines["a"].buffer.buffer = <<>> THEN <<>>
                                            ELSE Head(engines["a"].buffer.buffer),
                                            Len(engines["a"].buffer.buffer) = maxBufferSize)]
    /\ UNCHANGED <<clock, ctlVars, used>>

NextBuffer ==
    \/ \E packet \in BufferReports : Push(packet)
    \/ Pop

SpecBuffer == InitBuffer /\ [][NextBuffer]_vars

(* The same buffer given reports of which one has no timestamp. *)
NextBareBuffer ==
    \/ \E packet \in BareReports : Push(packet)
    \/ Pop

SpecBareBuffer == InitBuffer /\ [][NextBareBuffer]_vars

----------------------------------------------------------------------------
(* One engine whose reports are stamped with the wall clock at which input *)
(* receives them (no latency, clocks in step), so that a report's          *)
(* timestamp tells when it was received.                                   *)

(* A moving fix stamped now. *)
ReportNow(now) == Report("a", 4096, 8192, 36, 90, now, "true", "on")

AgeInput ==
    /\ used < MaxAgeSteps
    /\ engines' = [engines EXCEPT !["a"] = EngineInput(@, ReportNow(clock), clock)]
    /\ used' = used + 1
    /\ UNCHANGED <<clock, ctlVars>>

AgeTick ==
    /\ used < MaxAgeSteps
    /\ engines' = [engines EXCEPT !["a"] = EngineTick(@, clock, clock)]
    /\ used' = used + 1
    /\ UNCHANGED <<clock, ctlVars>>

AgeAdvance(d) ==
    /\ used < MaxAgeSteps
    /\ clock' = clock + d
    /\ used' = used + 1
    /\ UNCHANGED <<engines, ctlVars>>

NextAge ==
    \/ AgeInput
    \/ AgeTick
    \/ \E d \in ClockSteps : AgeAdvance(d)

SpecAge == Init /\ [][NextAge]_vars

----------------------------------------------------------------------------
(* One engine and a caller that keeps the estimate getEstimate returned.  *)

(* A moving fix stamped with the starting clock, an older fix two         *)
(* kilometres away and a parked fix.                                      *)
EstimateReports ==
    {Report("a", 4096, 8192, 36, 90, ClockStart, "true", "on"),
     Report("a", 20000000, 8192, 36, 0, ClockStart - 50, "none", "none"),
     Report("a", 4096, 8192, 0, 180, ClockStart, "false", "none")}

(* What the clock may advance by: a frame, or a second. *)
EstimateClockSteps == {50, 1000}

(* The engine has the default policy or one of the short ones. *)
InitEstimate ==
    /\ clock = ClockStart
    /\ policy \in Policies \cup {DEFAULT_POLICY}
    /\ engines = [id \in {"a"} |-> NewEngine(policy)]
    /\ order = <<"a">>
    /\ hasWindow = TRUE
    /\ liveAnimationFrameId = 0
    /\ lastLiveFrameTime = 0
    /\ pending = {}
    /\ nextHandle = 1
    /\ frame = NoFrame
    /\ adapter = NoAdapter
    /\ sched = NoHistory
    /\ liveVehicles = NoVehicles
    /\ legacyCall = NoLegacyCall
    /\ used = 0

EstimateInput(packet) ==
    /\ used < MaxEstimateSteps
    /\ engines' = [engines EXCEPT !["a"] = EngineInput(@, packet, clock)]
    /\ used' = used + 1
    /\ UNCHANGED <<clock, ctlVars>>

EstimateTick ==
    /\ used < MaxEstimateSteps
    /\ engines' = [engines EXCEPT !["a"] = EngineTick(@, clock, clock)]
    /\ used' = used + 1
    /\ UNCHANGED <<clock, ctlVars>>

(* getEstimate(): the caller keeps what it returns. *)
GetEstimate ==
    /\ used < MaxEstimateSteps
    /\ engines' = [engines EXCEPT !["a"].held =
                       [taken |-> TRUE, alias |-> TRUE,
                        estimate |-> getEstimate(engines["a"]),
                        atCall |-> getEstimate(engines["a"])]]
    /\ used' = used + 1
    /\ UNCHANGED <<clock, ctlVars>>

EstimateAdvance(d) ==
    /\ used < MaxEstimateSteps
    /\ clock' = clock + d
    /\ used' = used + 1
    /\ UNCHANGED <<engines, ctlVars>>

NextEstimate ==
    \/ \E packet \in EstimateReports : EstimateInput(packet)
    \/ EstimateTick
    \/ GetEstimate
    \/ \E d \in EstimateClockSteps : EstimateAdvance(d)

SpecEstimate == InitEstimate /\ [][NextEstimate]_vars

----------------------------------------------------------------------------
(* A VarianceIntentModel on its own (the one of engine "a"), given         *)
(* observations directly through update.                                   *)

(* The headings observed: the four axes, the thirds of a turn from 0 and   *)
(* from 5 degrees.                                                         *)
WindowHeadings == {0, 90, 180, 270, 120, 240, 5, 125, 245}

IntentObserve(h) ==
    /\ used < MaxWindowSteps
    /\ engines' = [engines EXCEPT
                       !["a"].intent = IntentUpdate(@, Report("a", 0, 0, 0, h, 0, "none", "none"))]
    /\ used' = used + 1
    /\ UNCHANGED <<clock, ctlVars>>

NextWindow == \E h \in WindowHeadings \cup {NoBearing} : IntentObserve(h)

SpecWindow == Init /\ [][NextWindow]_vars

----------------------------------------------------------------------------
(* LiveMotionController, its host and its adapter.                         *)
(*                                                                         *)
(* The host (the browser) keeps the set of requestAnimationFrame handles   *)
(* whose callback is due; it hands out handles in increasing order.  The   *)
(* frame callback is not atomic for the rest of the program: it calls the  *)
(* MarkerAdapter once per entity, and the adapter is the application's     *)
(* code, which may call back into the controller.  So a frame is three     *)
(* kinds of step (it begins, it handles one entity, it ends), and the      *)
(* controller's methods may be called between frames or, once the adapter  *)
(* has been called in the frame in progress, between its steps.            *)

(* Per entity: a moving, timestamped fix, and a bare fix with no timestamp. *)
CtlReportsFor(id) ==
    {Report(id, 4096, 8192, 36, 90, ClockStart, "true", "on"),
     Report(id, 8192, 4096, 0, NoBearing, 0, "none", "none")}

CtlPolicies == {DEFAULT_POLICY}

CtlClockSteps == {1000, 16000}

InitCtl ==
    /\ clock = ClockStart
    /\ policy \in CtlPolicies
    /\ engines = [id \in {} |-> NewEngine(policy)]
    /\ order = <<>>
    /\ hasWindow \in BOOLEAN
    /\ liveAnimationFrameId = 0
    /\ lastLiveFrameTime = 0
    /\ pending = {}
    /\ nextHandle = 1
    /\ frame = NoFrame
    /\ adapter = NoAdapter
    /\ sched = NoHistory
    /\ liveVehicles = NoVehicles
    /\ legacyCall = NoLegacyCall
    /\ used = 0

(* A method of the controller can be called now. *)
Callable ==
    /\ used < MaxCtlSteps
    /\ frame.active => frame.forwarded > 0

Without(seq, id) == SelectSeq(seq, LAMBDA x : x # id)

Called(name) ==
    [sched EXCEPT !.calls = @ + 1, !.prev = sched.last, !.last = name,
                  !.call = [name |-> name, id |-> "", hit |-> FALSE]]

(* update(input) that makes a new engine on every call. *)
RecreatingUpdate(input) ==
    /\ Callable
    /\ LET id == input.id
       IN  /\ engines' = [i \in DOMAIN engines \cup {id} |->
                             IF i = id THEN EngineInput(NewEngine(policy), input, clock)
                             ELSE engines[i]]
           /\ order' = IF id \in DOMAIN engines THEN order ELSE Append(order, id)
           /\ frame' = IF id \notin DOMAIN engines /\ frame.active
                       THEN [frame EXCEPT !.todo = Append(@, id)] ELSE frame
    /\ sched' = [sched EXCEPT !.updates[input.id] = @ + 1,
                              !.call = [name |-> "update", id |-> input.id,
                                        hit |-> input.id \in DOMAIN engines]]
    /\ used' = used + 1
    /\ UNCHANGED <<clock, policy, hasWindow, liveVehicles, legacyCall, liveAnimationFrameId, lastLiveFrameTime,
                   pending, nextHandle, adapter>>

(* update(input) that hands the report to every engine of the registry. *)
BroadcastUpdate(input) ==
    /\ Callable
    /\ LET id == input.id
       IN  /\ engines' = [i \in DOMAIN engines \cup {id} |->
                             EngineInput(IF i \in DOMAIN engines THEN engines[i]
                                         ELSE NewEngine(policy), input, clock)]
           /\ order' = IF id \in DOMAIN engines THEN order ELSE Append(order, id)
           /\ frame' = IF id \notin DOMAIN engines /\ frame.active
                       THEN [frame EXCEPT !.todo = Append(@, id)] ELSE frame
    /\ sched' = [sched EXCEPT !.updates[input.id] = @ + 1,
                              !.call = [name |-> "update", id |-> input.id,
                                        hit |-> input.id \in DOMAIN engines]]
    /\ used' = used + 1
    /\ UNCHANGED <<clock, policy, hasWindow, liveVehicles, legacyCall, liveAnimationFrameId, lastLiveFrameTime,
                   pending, nextHandle, adapter>>

(* update(input) *)
Update(input) ==
    /\ Callable
    /\ LET id     == input.id
           isNew  == id \notin DOMAIN engines
           engine == IF isNew THEN NewEngine(policy) ELSE engines[id]
       IN  /\ engines' = [i \in DOMAIN engines \cup {id} |->
                             IF i = id THEN EngineInput(engine, input, clock)
                             ELSE engines[i]]
           /\ order' = IF isNew THEN Append(order, id) ELSE order
           /\ frame' = IF isNew /\ frame.active
                       THEN [frame EXCEPT !.todo = Append(@, id)] ELSE frame
    /\ sched' = [sched EXCEPT !.updates[input.id] = @ + 1,
                              !.call = [name |-> "update", id |-> input.id,
                                        hit |-> input.id \in DOMAIN engines]]
    /\ used' = used + 1
    /\ UNCHANGED <<clock, policy, hasWindow, liveVehicles, legacyCall, liveAnimationFrameId, lastLiveFrameTime,
                   pending, nextHandle, adapter>>

(* remove(id) that empties the registry when it does not find the id. *)
SweepingRemove(id) ==
    /\ Callable
    /\ engines' = IF id \in DOMAIN engines
                  THEN [i \in DOMAIN engines \ {id} |-> engines[i]]
                  ELSE [i \in {} |-> NewEngine(policy)]
    /\ order' = IF id \in DOMAIN engines THEN Without(order, id) ELSE <<>>
    /\ frame' = [frame EXCEPT !.todo = IF id \in DOMAIN engines
                                       THEN Without(@, id) ELSE <<>>]
    /\ sched' = [sched EXCEPT !.updates[id] = 0,
                              !.call = [name |-> "remove", id |-> id,
                                        hit |-> id \in DOMAIN engines]]
    /\ used' = used + 1
    /\ UNCHANGED <<clock, policy, hasWindow, liveVehicles, legacyCall, liveAnimationFrameId, lastLiveFrameTime,
                   pending, nextHandle, adapter>>

(* remove(id) that also cancels the scheduled frame, as stop() does. *)
StoppingRemove(id) ==
    /\ Callable
    /\ engines' = [i \in DOMAIN engines \ {id} |-> engines[i]]
    /\ order' = Without(order, id)
    /\ frame' = [frame EXCEPT !.todo = Without(@, id),
                              !.removed = IF frame.active /\ id \in DOMAIN engines
                                          THEN @ \cup {id} ELSE @]
    /\ pending' = pending \ {liveAnimationFrameId}
    /\ liveAnimationFrameId' = 0
    /\ sched' = [sched EXCEPT !.updates[id] = 0,
                              !.call = [name |-> "remove", id |-> id,
                                        hit |-> id \in DOMAIN engines]]
    /\ used' = used + 1
    /\ UNCHANGED <<clock, policy, hasWindow, liveVehicles, legacyCall, lastLiveFrameTime, nextHandle, adapter>>

(* remove(id) *)
Remove(id) ==
    /\ Callable
    /\ engines' = [i \in DOMAIN engines \ {id} |-> engines[i]]
    /\ order' = Without(order, id)
    /\ frame' = [frame EXCEPT !.todo = Without(@, id),
                              !.removed = IF frame.active /\ id \in DOMAIN engines
                                          THEN @ \cup {id} ELSE @]
    /\ sched' = [sched EXCEPT !.updates[id] = 0,
                              !.call = [name |-> "remove", id |-> id,
                                        hit |-> id \in DOMAIN engines]]
    /\ used' = used + 1
    /\ UNCHANGED <<clock, policy, hasWindow, liveVehicles, legacyCall, liveAnimationFrameId, lastLiveFrameTime,
                   pending, nextHandle, adapter>>

(* clear() *)
Clear ==
    /\ Callable
    /\ engines' = [i \in {} |-> NewEngine(policy)]
    /\ order' = <<>>
    /\ frame' = [frame EXCEPT !.todo = <<>>,
                              !.removed = IF frame.active
                                          THEN @ \cup DOMAIN engines ELSE @]
    /\ sched' = [sched EXCEPT !.updates = [id \in Ids |-> 0],
                              !.call = [name |-> "clear", id |-> "", hit |-> FALSE]]
    /\ used' = used + 1
    /\ UNCHANGED <<clock, policy, hasWindow, liveVehicles, legacyCall, liveAnimationFrameId, lastLiveFrameTime,
                   pending, nextHandle, adapter>>

(* start() with its two guards dropped: it schedules whatever the handle is. *)
UnguardedStart ==
    /\ Callable
    /\ liveAnimationFrameId' = nextHandle
    /\ pending' = pending \cup {nextHandle}
    /\ nextHandle' = nextHandle + 1
    /\ sched' = [Called("start") EXCEPT !.stopped = FALSE]
    /\ used' = used + 1
    /\ UNCHANGED <<clock, engines, order, policy, hasWindow, liveVehicles, legacyCall, lastLiveFrameTime,
                   frame, adapter>>

(* start() *)
Start ==
    /\ Callable
    /\ IF ~hasWindow \/ liveAnimationFrameId # 0
       THEN UNCHANGED <<liveAnimationFrameId, pending, nextHandle>>
       ELSE /\ liveAnimationFrameId' = nextHandle
            /\ pending' = pending \cup {nextHandle}
            /\ nextHandle' = nextHandle + 1
    /\ sched' = [Called("start") EXCEPT !.stopped = FALSE]
    /\ used' = used + 1
    /\ UNCHANGED <<clock, engines, order, policy, hasWindow, liveVehicles, legacyCall, lastLiveFrameTime,
                   frame, adapter>>

(* stop() *)
Stop ==
    /\ Callable
    /\ IF liveAnimationFrameId # 0
       THEN /\ pending' = pending \ {liveAnimationFrameId}
            /\ liveAnimationFrameId' = 0
            /\ lastLiveFrameTime' = 0
            /\ sched' = [Called("stop") EXCEPT
                            !.stopped = TRUE,
                            !.cancelled = Append(@, liveAnimationFrameId)]
       ELSE /\ UNCHANGED <<pending, liveAnimationFrameId, lastLiveFrameTime>>
            /\ sched' = [Called("stop") EXCEPT !.stopped = TRUE]
    /\ used' = used + 1
    /\ UNCHANGED <<clock, engines, order, policy, hasWindow, liveVehicles, legacyCall, nextHandle, frame, adapter>>

(* The host runs a due callback: animate(time) up to its forEach. *)
FrameBegin(handle) ==
    /\ used < MaxCtlSteps
    /\ ~frame.active
    /\ handle \in pending
    /\ pending' = pending \ {handle}
    /\ lastLiveFrameTime' = IF lastLiveFrameTime = 0 THEN clock ELSE lastLiveFrameTime
    /\ frame' = [active |-> TRUE, todo |-> order, now |-> clock, time |-> clock,
                 handle |-> handle, forwarded |-> 0, done |-> <<>>, removed |-> {}]
    /\ sched' = [sched EXCEPT !.call = NoCall]
    /\ used' = used + 1
    /\ UNCHANGED <<clock, engines, order, policy, hasWindow, liveVehicles, legacyCall, liveAnimationFrameId,
                   nextHandle, adapter>>

(* One turn of the forEach with getEstimate read before tick: the pose  *)
(* forwarded is the one the previous frame left.                        *)
EstimateBeforeTick ==
    /\ frame.active
    /\ frame.todo # <<>>
    /\ LET id       == Head(frame.todo)
           estimate == getEstimate(engines[id])
           engine   == EngineTick(engines[id], frame.now, clock)
       IN  /\ engines' = [engines EXCEPT ![id] = engine]
           /\ adapter' = [positions |-> adapter.positions + 1,
                          position |-> <<id, estimate.pose.lat, estimate.pose.lng>>,
                          rotation |-> <<id, estimate.pose.heading>>]
    /\ frame' = [frame EXCEPT !.todo = Tail(@), !.forwarded = @ + 1,
                              !.done = Append(@, Head(frame.todo))]
    /\ UNCHANGED <<clock, order, policy, hasWindow, liveVehicles, legacyCall, liveAnimationFrameId,
                   lastLiveFrameTime, pending, nextHandle, sched, used>>

(* One turn of the forEach: tick, getEstimate, render. *)
FrameEntity ==
    /\ frame.active
    /\ frame.todo # <<>>
    /\ LET id       == Head(frame.todo)
           engine   == EngineTick(engines[id], frame.now, clock)
           estimate == getEstimate(engine)
       IN  /\ engines' = [engines EXCEPT ![id] = engine]
           /\ adapter' = [positions |-> adapter.positions + 1,
                          position |-> <<id, estimate.pose.lat, estimate.pose.lng>>,
                          rotation |-> <<id, estimate.pose.heading>>]
    /\ frame' = [frame EXCEPT !.todo = Tail(@), !.forwarded = @ + 1,
                              !.done = Append(@, Head(frame.todo))]
    /\ UNCHANGED <<clock, order, policy, hasWindow, liveVehicles, legacyCall, liveAnimationFrameId,
                   lastLiveFrameTime, pending, nextHandle, sched, used>>

(* The end of animate: it schedules the next frame. *)
FrameEnd ==
    /\ frame.active
    /\ frame.todo = <<>>
    /\ lastLiveFrameTime' = frame.time
    /\ liveAnimationFrameId' = nextHandle
    /\ pending' = pending \cup {nextHandle}
    /\ nextHandle' = nextHandle + 1
    /\ frame' = NoFrame
    /\ UNCHANGED <<clock, engines, order, policy, hasWindow, liveVehicles, legacyCall, adapter, sched, used>>

(* Time passes between frames. *)
CtlAdvance(d) ==
    /\ used < MaxCtlSteps
    /\ ~frame.active
    /\ clock' = clock + d
    /\ sched' = [sched EXCEPT !.call = NoCall]
    /\ used' = used + 1
    /\ UNCHANGED <<engines, order, policy, hasWindow, liveVehicles, legacyCall, liveAnimationFrameId,
                   lastLiveFrameTime, pending, nextHandle, frame, adapter>>

NextCtl ==
    \/ \E id \in Ids : \E input \in CtlReportsFor(id) : Update(input)
    \/ \E id \in Ids : Remove(id)
    \/ Clear
    \/ Start
    \/ Stop
    \/ \E handle \in pending : FrameBegin(handle)
    \/ FrameEntity
    \/ FrameEnd
    \/ \E d \in CtlClockSteps : CtlAdvance(d)

SpecCtl == InitCtl /\ [][NextCtl]_vars

----------------------------------------------------------------------------
(* The VehicleLike-based LiveMotionController (controllers/                *)
(* LiveMotionController.ts).  It keeps a LiveUnitState per vehicle and     *)
(* animates it in the frame callback itself.  A state carries one field    *)
(* the code does not have: fix, the message that set lastFix.  The model   *)
(* tracks one vehicle; its messages lie on one meridian, and an absent ts  *)
(* is 0.                                                                   *)

MAX_STALE_MS == 15 * 60 * 1000

Vehicle(id, lat, lng, speed, course, ts, msg_class, alert, engine_status) ==
    [id |-> id, lat |-> lat, lng |-> lng, speed |-> speed, course |-> course,
     ts |-> ts, msg_class |-> msg_class, alert |-> alert,
     engine_status |-> engine_status]

(* A moving position fix with a backend timestamp; a moving fix 11 m      *)
(* further north; a "Door Open" alert 2 km away; a "Turn Off" alert; a    *)
(* status message of an idling vehicle (engine on, speed 0) with a new    *)
(* course; and a position fix that reports the engine off while moving.   *)
Vehicles ==
    {Vehicle("a", 4096, 8192, 36, 0, ClockStart, "Position", "none", "none"),
     Vehicle("a", 104096, 8192, 36, 0, 0, "Position", "none", "none"),
     Vehicle("a", 20004096, 8192, 0, 90, 0, "Alert", "Door Open", "none"),
     Vehicle("a", 104096, 8192, 0, 90, 0, "Alert", "Turn Off", "none"),
     Vehicle("a", 4096, 8192, 0, 90, 0, "Status", "none", "on"),
     Vehicle("a", 4096, 8192, 36, 0, 0, "Position", "none", "off")}

LegacyClockSteps == {50, 6000}

shouldAffectMotion(vehicle) ==
    IF vehicle.msg_class = "Alert"
    THEN vehicle.alert = "Turn Off" \/ vehicle.alert = "Turn On"
    ELSE TRUE

isVehicleStopped(vehicle) ==
    IF vehicle.msg_class = "Alert" /\ vehicle.alert = "Turn Off" THEN TRUE
    ELSE IF vehicle.msg_class = "Alert" /\ vehicle.alert = "Turn On" THEN FALSE
    ELSE IF vehicle.msg_class \in {"Status", "status", "STATUS"}
            /\ vehicle.engine_status \in {"OFF", "off", "false", "0"} THEN TRUE
    ELSE IF vehicle.msg_class \in {"Status", "status", "STATUS"}
            /\ vehicle.engine_status \in {"ON", "on", "true", "1"} THEN FALSE
    ELSE vehicle.speed < 1

(* The timestamp of a fix: the backend's if the message has one, else now. *)
FixTimestamp(vehicle, now) == IF vehicle.ts # 0 THEN vehicle.ts ELSE now

initLiveState(vehicle, now) ==
    [lastFix |-> [lat |-> vehicle.lat, lon |-> vehicle.lng,
                  ts |-> FixTimestamp(vehicle, now)],
     prevFix |-> <<>>,
     speed |-> (vehicle.speed * 1000000) \div 3600,
     bearing |-> vehicle.course * 1000,
     targetBearing |-> vehicle.course * 1000,
     virtualPosition |-> [lat |-> vehicle.lat, lon |-> vehicle.lng],
     lastUpdateTs |-> now,
     isStopped |-> isVehicleStopped(vehicle),
     fix |-> vehicle]

(* updateLiveState that takes every message, whatever its class. *)
UnfilteredUpdateLiveState(state, vehicle, now) ==
    LET newIsStopped == isVehicleStopped(vehicle)
        isAlert      == vehicle.msg_class = "Alert"
        prevFix      == state.lastFix
        dist         == haversineDistance([lat |-> prevFix.lat, lon |-> prevFix.lon],
                                          [lat |-> vehicle.lat, lon |-> vehicle.lng])
        distVirtual  == haversineDistance(state.virtualPosition,
                                          [lat |-> vehicle.lat, lon |-> vehicle.lng])
    IN  [state EXCEPT
            !.prevFix = prevFix,
            !.lastFix = [lat |-> vehicle.lat, lon |-> vehicle.lng,
                         ts |-> FixTimestamp(vehicle, now)],
            !.targetBearing =
                IF ~newIsStopped \/ isAlert
                THEN IF dist > 2
                     THEN computeBearing(prevFix.lat, prevFix.lon, vehicle.lat, vehicle.lng)
                     ELSE IF vehicle.course # 0 THEN vehicle.course * 1000 ELSE @
                ELSE @,
            !.speed = (vehicle.speed * 1000000) \div 3600,
            !.isStopped = newIsStopped,
            !.virtualPosition = IF distVirtual > 500
                                THEN [lat |-> vehicle.lat, lon |-> vehicle.lng] ELSE @,
            !.fix = vehicle]

(* updateLiveState for a vehicle the Map holds. *)
updateLiveState(state, vehicle, now) ==
    IF ~shouldAffectMotion(vehicle) THEN state
    ELSE UnfilteredUpdateLiveState(state, vehicle, now)

(* The prediction window of the frame: the confidence, a fraction. *)
LegacyConfidence(age) ==
    IF age < 5000 THEN [num |-> 1, den |-> 1]
    ELSE IF age < 15000 THEN [num |-> 15000 - age, den |-> 10000]
    ELSE [num |-> 0, den |-> 1]

(* The body of animate's forEach for one vehicle. *)
AnimateVehicle(state0, now, dtMs) ==
    LET age   == now - state0.lastFix.ts
        state == IF age > MAX_STALE_MS THEN [state0 EXCEPT !.isStopped = TRUE] ELSE state0
    IN  IF state.isStopped
        THEN [state EXCEPT !.virtualPosition =
                               lerpPositionBy(@, [lat |-> state.lastFix.lat,
                                                  lon |-> state.lastFix.lon], 1, 10)]
        ELSE LET confidence     == LegacyConfidence(age)
                 effectiveSpeed == (state.speed * confidence.num) \div confidence.den
                 projected      == extrapolatePosition(state.virtualPosition.lat,
                                                       state.virtualPosition.lon,
                                                       effectiveSpeed, state.targetBearing,
                                                       dtMs)
             IN  [state EXCEPT
                     !.virtualPosition =
                         lerpPositionBy(projected, [lat |-> state.lastFix.lat,
                                                    lon |-> state.lastFix.lon], 5, 100),
                     !.bearing = lerpAngleBy(@, state.targetBearing, 15, 100)]

LegacyCalled(name) == [name |-> name, vehicle |-> <<>>, tracked |-> FALSE]

legacyRest == <<engines, order, policy, hasWindow, frame, sched>>

InitLegacy ==
    /\ clock = ClockStart
    /\ policy = DEFAULT_POLICY
    /\ engines = [id \in {} |-> NewEngine(policy)]
    /\ order = <<>>
    /\ hasWindow \in BOOLEAN
    /\ liveAnimationFrameId = 0
    /\ lastLiveFrameTime = 0
    /\ pending = {}
    /\ nextHandle = 1
    /\ frame = NoFrame
    /\ adapter = NoAdapter
    /\ sched = NoHistory
    /\ liveVehicles = NoVehicles
    /\ legacyCall = NoLegacyCall
    /\ used = 0

(* addVehicle(vehicle) *)
AddVehicle(vehicle) ==
    /\ used < MaxLegacySteps
    /\ liveVehicles' = [i \in DOMAIN liveVehicles \cup {vehicle.id} |->
                            IF i = vehicle.id THEN initLiveState(vehicle, clock)
                            ELSE liveVehicles[i]]
    /\ legacyCall' = [name |-> "addVehicle", vehicle |-> vehicle,
                      tracked |-> vehicle.id \in DOMAIN liveVehicles]
    /\ used' = used + 1
    /\ UNCHANGED <<clock, liveAnimationFrameId, lastLiveFrameTime, pending, nextHandle,
                   adapter, legacyRest>>

(* updateVehicle(vehicle) without the motion policy. *)
UnfilteredUpdateVehicle(vehicle) ==
    /\ used < MaxLegacySteps
    /\ liveVehicles' = [i \in DOMAIN liveVehicles \cup {vehicle.id} |->
                            IF i # vehicle.id THEN liveVehicles[i]
                            ELSE IF i \in DOMAIN liveVehicles
                                 THEN UnfilteredUpdateLiveState(liveVehicles[i], vehicle, clock)
                                 ELSE initLiveState(vehicle, clock)]
    /\ legacyCall' = [name |-> "updateVehicle", vehicle |-> vehicle,
                      tracked |-> vehicle.id \in DOMAIN liveVehicles]
    /\ used' = used + 1
    /\ UNCHANGED <<clock, liveAnimationFrameId, lastLiveFrameTime, pending, nextHandle,
                   adapter, legacyRest>>

(* updateVehicle(vehicle) *)
UpdateVehicle(vehicle) ==
    /\ used < MaxLegacySteps
    /\ liveVehicles' = [i \in DOMAIN liveVehicles \cup {vehicle.id} |->
                            IF i # vehicle.id THEN liveVehicles[i]
                            ELSE IF i \in DOMAIN liveVehicles
                                 THEN updateLiveState(liveVehicles[i], vehicle, clock)
                                 ELSE initLiveState(vehicle, clock)]
    /\ legacyCall' = [name |-> "updateVehicle", vehicle |-> vehicle,
                      tracked |-> vehicle.id \in DOMAIN liveVehicles]
    /\ used' = used + 1
    /\ UNCHANGED <<clock, liveAnimationFrameId, lastLiveFrameTime, pending, nextHandle,
                   adapter, legacyRest>>

(* removeVehicle(id) *)
RemoveVehicle(id) ==
    /\ used < MaxLegacySteps
    /\ liveVehicles' = [i \in DOMAIN liveVehicles \ {id} |-> liveVehicles[i]]
    /\ legacyCall' = LegacyCalled("removeVehicle")
    /\ used' = used + 1
    /\ UNCHANGED <<clock, liveAnimationFrameId, lastLiveFrameTime, pending, nextHandle,
                   adapter, legacyRest>>

(* clear() *)
LegacyClear ==
    /\ used < MaxLegacySteps
    /\ liveVehicles' = NoVehicles
    /\ legacyCall' = LegacyCalled("clear")
    /\ used' = used + 1
    /\ UNCHANGED <<clock, liveAnimationFrameId, lastLiveFrameTime, pending, nextHandle,
                   adapter, legacyRest>>

(* start() *)
LegacyStart ==
    /\ used < MaxLegacySteps
    /\ IF ~hasWindow \/ liveAnimationFrameId # 0
       THEN UNCHANGED <<liveAnimationFrameId, pending, nextHandle>>
       ELSE /\ liveAnimationFrameId' = nextHandle
            /\ pending' = pending \cup {nextHandle}
            /\ nextHandle' = nextHandle + 1
    /\ legacyCall' = LegacyCalled("start")
    /\ used' = used + 1
    /\ UNCHANGED <<clock, lastLiveFrameTime, adapter, liveVehicles, legacyRest>>

(* stop() *)
LegacyStop ==
    /\ used < MaxLegacySteps
    /\ IF liveAnimationFrameId # 0
       THEN /\ pending' = pending \ {liveAnimationFrameId}
            /\ liveAnimationFrameId' = 0
            /\ lastLiveFrameTime' = 0
       ELSE UNCHANGED <<pending, liveAnimationFrameId, lastLiveFrameTime>>
    /\ legacyCall' = LegacyCalled("stop")
    /\ used' = used + 1
    /\ UNCHANGED <<clock, nextHandle, adapter, liveVehicles, legacyRest>>

(* The host runs a due callback: animate(time), with time = the clock. *)
Animate(handle) ==
    /\ used < MaxLegacySteps
    /\ handle \in pending
    /\ LET last  == IF lastLiveFrameTime = 0 THEN clock ELSE lastLiveFrameTime
           delta == clock - last
           dtMs  == IF delta < 100 THEN delta ELSE 100
           after == [i \in DOMAIN liveVehicles |->
                        AnimateVehicle(liveVehicles[i], clock, dtMs)]
       IN  /\ liveVehicles' = after
           /\ adapter' =
                  IF DOMAIN after = {} THEN adapter
                  ELSE LET id == CHOOSE i \in DOMAIN after : TRUE
                       IN  [positions |-> adapter.positions + Cardinality(DOMAIN after),
                            position |-> <<id, after[id].virtualPosition.lat,
                                           after[id].virtualPosition.lon>>,
                            rotation |-> <<id, after[id].bearing>>]
    /\ lastLiveFrameTime' = clock
    /\ liveAnimationFrameId' = nextHandle
    /\ pending' = (pending \ {handle}) \cup {nextHandle}
    /\ nextHandle' = nextHandle + 1
    /\ legacyCall' = LegacyCalled("animate")
    /\ used' = used + 1
    /\ UNCHANGED <<clock, legacyRest>>

(* Time passes between frames. *)
LegacyAdvance(d) ==
    /\ used < MaxLegacySteps
    /\ clock' = clock + d
    /\ legacyCall' = LegacyCalled("advance")
    /\ used' = used + 1
    /\ UNCHANGED <<liveAnimationFrameId, lastLiveFrameTime, pending, nextHandle,
                   adapter, liveVehicles, legacyRest>>

NextLegacy ==
    \/ \E vehicle \in Vehicles : AddVehicle(vehicle)
    \/ \E vehicle \in Vehicles : UpdateVehicle(vehicle)
    \/ \E id \in {"a"} : RemoveVehicle(id)
    \/ LegacyClear
    \/ LegacyStart
    \/ LegacyStop
    \/ \E handle \in pending : Animate(handle)
    \/ \E d \in LegacyClockSteps : LegacyAdvance(d)

SpecLegacy == InitLegacy /\ [][NextLegacy]_vars

----------------------------------------------------------------------------
(* GoogleMapEngine feeding the controller.  addVehicleMarker and           *)
(* updateVehicleMarker both end, for a vehicle with an id and numeric      *)
(* coordinates, in liveController.update(adaptToInput(vehicle, lat, lng,   *)
(* id)); the markers they also maintain are not part of the model.  A      *)
(* field the vehicle message does not carry is Missing.                    *)

Missing == -1

(* adaptToInput(vehicle, lat, lng, id) *)
adaptToInput(vehicle, lat, lng, id) ==
    Report(id, lat, lng,
           IF vehicle.speed = Missing THEN 0 ELSE vehicle.speed,
           IF vehicle.course = Missing THEN 0 ELSE vehicle.course,
           vehicle.ts,
           IF vehicle.engine_status = "none" THEN "none"
           ELSE IF vehicle.engine_status \in {"1", "true", "on", "ON", "True", "On", "TRUE"}
                THEN "true" ELSE "false",
           IF vehicle.alert = "Turn On" THEN "on"
           ELSE IF vehicle.alert = "Turn Off" THEN "off"
           ELSE "none")

(* A moving fix heading east; a fix 11 m further north that carries       *)
(* neither course nor speed; and a parked fix heading south.              *)
GoogleVehicles ==
    {Vehicle("a", 4096, 8192, 36, 90, ClockStart, "Position", "none", "on"),
     Vehicle("a", 104096, 8192, Missing, Missing, ClockStart, "Position", "none", "none"),
     Vehicle("a", 4096, 8192, 0, 180, ClockStart, "Alert", "Turn Off", "none")}

(* updateVehicleMarker(vehicle), or addVehicleMarker(vehicle) for a        *)
(* vehicle that has no marker yet.                                         *)
UpdateVehicleMarker(vehicle) ==
    /\ vehicle.id # ""
    /\ Update(adaptToInput(vehicle, vehicle.lat, vehicle.lng, vehicle.id))

NextGoogle ==
    \/ \E vehicle \in GoogleVehicles : UpdateVehicleMarker(vehicle)
    \/ Start
    \/ \E handle \in pending : FrameBegin(handle)
    \/ FrameEntity
    \/ FrameEnd
    \/ \E d \in CtlClockSteps : CtlAdvance(d)

SpecGoogle == InitCtl /\ [][NextGoogle]_vars

----------------------------------------------------------------------------
(* Properties of one engine, checked under Spec. *)

E == engines["a"]

(* The timestamps of the observations applied so far that the history keeps: *)
(* the last one before the most recent call, then those of that call.        *)
RecentTimestamps ==
    (IF E.prevApplied = 0 THEN <<>> ELSE <<E.prevApplied>>)
        \o [i \in 1..Len(E.log) |-> E.log[i].packet.timestamp]

NonDecreasing(s) == \A i \in 1..(Len(s) - 1) : s[i] <= s[i + 1]

(* C1: when every report given to input carried a timestamp, the reports  *)
(* processObservation applies (the bootstrap inside input included) have  *)
(* non-decreasing timestamps.                                             *)
C1_AppliedInTimestampOrder ==
    E.allStamped => NonDecreasing(RecentTimestamps)

(* C2: a report applied to a Live engine from more than 500 m away leaves *)
(* the pose exactly at the report's position, whatever the state was.     *)
C2_TeleportSnaps ==
    \A i \in 1..Len(E.log) :
        LET a == E.log[i]
        IN  (/\ a.live
             /\ haversineDistance([lat |-> a.poseBefore.lat, lon |-> a.poseBefore.lng],
                                  [lat |-> a.packet.lat, lon |-> a.packet.lng]) > 500)
            => (a.poseAfter.lat = a.packet.lat /\ a.poseAfter.lng = a.packet.lng)

(* A report that classifies the entity as stationary. *)
Stationary(packet) ==
    \/ packet.speedKmh < 1
    \/ packet.moving = "false"
    \/ packet.ignition = "off"

(* C3: a stationary report that carries a bearing and no ignition hint    *)
(* (so no state transition) applied to a Live engine leaves pose.heading  *)
(* and the physics-held heading as they were.                             *)
C3_StationaryKeepsHeading ==
    \A i \in 1..Len(E.log) :
        LET a == E.log[i]
        IN  (/\ a.live
             /\ Stationary(a.packet)
             /\ a.packet.bearing # NoBearing
             /\ a.packet.ignition = "none")
            => (/\ a.poseAfter.heading = a.poseBefore.heading
                /\ a.physAfter.currentHeading = a.physBefore.currentHeading)

PositivePolicy(p) == p.fullConfidenceMs > 0 /\ p.decayMs > 0 /\ p.maxStaleMs > 0

(* C4: for a policy with positive fields, whenever the age since the last *)
(* applied report exceeds maxStaleMs, pose.speed is 0 (the age only grows *)
(* in a tick, so this is the pose after each such tick and until the next *)
(* observation).                                                          *)
C4_StaleMeansStopped ==
    (/\ PositivePolicy(E.confidence.policy)
     /\ E.initialized
     /\ Age(E.confidence) > E.confidence.policy.maxStaleMs)
    => E.currentPose.speed = 0

(* Ages at which the confidence functions are sampled: a grid over the    *)
(* policy's bands and beyond, and the age the engine is at.               *)
AgeSamples == {10 * k : k \in 0..60} \cup {Age(E.confidence)}

LessEq(c1, c2) == c1.num * c2.den <= c2.num * c1.den

(* C5: for a policy with positive fields and every age a >= 0, the        *)
(* confidence is in [0,1], is 1 at age 0, does not increase with the age  *)
(* and is 0 from fullConfidenceMs + decayMs on.                           *)
C5_ConfidenceShape ==
    LET p == E.confidence.policy
    IN  PositivePolicy(p) =>
        \A a \in AgeSamples :
            LET c == ConfidenceAt(a, p)
            IN  /\ c.den > 0 /\ 0 <= c.num /\ c.num <= c.den
                /\ (a = 0 => c.num = c.den)
                /\ (a >= p.fullConfidenceMs + p.decayMs => c.num = 0)
                /\ LessEq(ConfidenceAt(a + 10, p), c)
                /\ (a <= Age(E.confidence) => LessEq(getConfidence(E.confidence), c))

(* The engine has decayed into the ramp: its confidence is strictly       *)
(* between 0 and 1.                                                       *)
C5_Witness ==
    /\ E.op.name = "tick"
    /\ getConfidence(E.confidence).num > 0
    /\ getConfidence(E.confidence).num < getConfidence(E.confidence).den

(* The state the specification gives for an age under a policy. *)
ExpectedState(a, p) ==
    CASE a < p.fullConfidenceMs -> "REAL"
      [] a >= p.fullConfidenceMs /\ ConfidenceAt(a, p).num > 0 -> "COASTING"
      [] a >= p.fullConfidenceMs /\ ConfidenceAt(a, p).num = 0 /\ a > p.maxStaleMs -> "FROZEN"
      [] OTHER -> "PREDICTED"

(* C6: the state is REAL below fullConfidenceMs, else COASTING while the  *)
(* confidence is positive, else FROZEN past maxStaleMs, else PREDICTED,   *)
(* for the engine's own age and for every sampled age.                    *)
C6_StateBuckets ==
    /\ getEstimate(E).state = ExpectedState(E.confidence.currentTime - E.confidence.lastUpdateTime,
                                            E.confidence.policy)
    /\ \A a \in AgeSamples : StateAt(a, E.confidence.policy) = ExpectedState(a, E.confidence.policy)

(* A tick has left the engine in the band past the decay window and not   *)
(* yet past maxStaleMs.                                                   *)
C6_Witness ==
    /\ E.op.name = "tick"
    /\ getEstimate(E).state = "PREDICTED"
    /\ Age(E.confidence) >= E.confidence.policy.fullConfidenceMs + E.confidence.policy.decayMs

FirstInputJustMade == E.nInputs = 1 /\ E.op.name = "input"

StaleTickJustMade ==
    E.op.name = "tick" /\ E.op.wasLive /\ E.op.now <= E.op.lastTickBefore

(* C10: such a tick leaves the confidence clock and the pose's position,  *)
(* speed and uncertaintyRadius as they were just after the drain.         *)
C10_StaleTickSkipsWork ==
    StaleTickJustMade =>
        LET drainedConfidence == E.op.drained[1]
            drainedPose       == E.op.drained[2]
        IN  /\ E.confidence.currentTime = drainedConfidence.currentTime
            /\ E.confidence.lastUpdateTime = drainedConfidence.lastUpdateTime
            /\ E.currentPose.lat = drainedPose.lat
            /\ E.currentPose.lng = drainedPose.lng
            /\ E.currentPose.speed = drainedPose.speed
            /\ E.currentPose.uncertaintyRadius = drainedPose.uncertaintyRadius

(* A tick with now strictly before lastTickTime that drained a report     *)
(* carrying a speed.                                                      *)
C10_Witness ==
    /\ StaleTickJustMade
    /\ E.op.now < E.op.lastTickBefore
    /\ E.log # <<>>
    /\ E.physics.currentSpeed > 0

(* A report of the kind the interface allows: speed not negative, bearing *)
(* absent or within 0..360 inclusive.                                     *)
ValidReport(packet) ==
    /\ packet.speedKmh >= 0
    /\ packet.bearing = NoBearing \/ (0 <= packet.bearing /\ packet.bearing <= 360)

(* C15: in every state of an engine fed with valid reports and ticks,     *)
(* pose.heading is in [0, 360), pose.speed >= 0 and uncertaintyRadius >= 0.*)
C15_PoseInRange ==
    (\A packet \in ReportsFor("a") : ValidReport(packet)) =>
        /\ 0 <= E.currentPose.heading /\ E.currentPose.heading < FullTurn
        /\ E.currentPose.speed >= 0
        /\ E.currentPose.uncertaintyRadius >= 0

(* The step is a call of tick on a Live engine. *)
LiveTickCall ==
    /\ used' = used + 1 /\ clock' = clock
    /\ engines'["a"].op.name = "tick"
    /\ E.initialized

(* The reports a call applied, in the order it applied them. *)
Applied(e) == [i \in 1..Len(e.log) |-> e.log[i].packet]

(* C26: a tick of a Live engine leaves the buffer empty, having applied   *)
(* every report the buffer held when it began, each once, in the buffer's *)
(* order, which is by timestamp ascending.                                *)
C26_TickDrainsBuffer ==
    [][LiveTickCall =>
          /\ engines'["a"].buffer.buffer = <<>>
          /\ Applied(engines'["a"]) = E.buffer.buffer
          /\ \A i \in 1..(Len(E.buffer.buffer) - 1) :
                 SortKey(E.buffer.buffer[i]) <= SortKey(E.buffer.buffer[i + 1])]_vars

(* A tick has applied two reports, the older one first, and the buffer is *)
(* empty.                                                                 *)
C26_Witness ==
    /\ E.op.name = "tick" /\ E.op.wasLive
    /\ Len(E.log) = 2
    /\ 0 < E.log[1].packet.timestamp
    /\ E.log[1].packet.timestamp < E.log[2].packet.timestamp
    /\ E.buffer.buffer = <<>>

(* C30: after a tick of a Live engine that applied one report, the pose's *)
(* heading is, if the report carried a bearing, the interpolation by 0.5  *)
(* along the shorter arc from the heading the pose had towards that       *)
(* bearing, and otherwise the heading the physics model holds.            *)
C30_HeadingIsInterpolated ==
    (E.op.name = "tick" /\ Len(E.log) = 1 /\ E.log[1].live) =>
        IF E.log[1].packet.bearing # NoBearing
        THEN getEstimate(E).pose.heading =
                 lerpAngle(E.log[1].poseBefore.heading, E.log[1].packet.bearing * 1000, 1)
        ELSE getEstimate(E).pose.heading = E.physics.currentHeading

(* The step is a call of input, or of tick, on the engine. *)
InputCall ==
    used' = used + 1 /\ clock' = clock /\ engines'["a"].op.name = "input"

TickCall ==
    used' = used + 1 /\ clock' = clock /\ engines'["a"].op.name = "tick"

(* What the class itself holds of an engine. *)
EngineFields(e) ==
    <<e.buffer, e.physics, e.confidence, e.intent, e.currentPose, e.lastTickTime,
      e.initialized>>

(* C31: an engine is Live after a step exactly if it was Live before or   *)
(* the step is an input whose report carries a timestamp; a tick of an    *)
(* Uninitialized engine changes none of its fields; and an input without  *)
(* a timestamp to an Uninitialized engine changes the buffer only, by     *)
(* pushing the report, and applies nothing.                               *)
C31_LiveFromFirstStampedInput ==
    [][/\ engines'["a"].initialized <=>
              (E.initialized \/ (InputCall /\ engines'["a"].op.packet.timestamp # 0))
       /\ (TickCall /\ ~E.initialized) =>
              /\ EngineFields(engines'["a"]) = EngineFields(E)
              /\ engines'["a"].log = <<>>
       /\ (InputCall /\ ~E.initialized /\ engines'["a"].op.packet.timestamp = 0) =>
              /\ engines'["a"].buffer =
                     BufferPush(E.buffer, engines'["a"].op.packet, clock)
              /\ Len(engines'["a"].buffer.buffer) = Len(E.buffer.buffer) + 1
              /\ EngineFields([engines'["a"] EXCEPT !.buffer = E.buffer]) = EngineFields(E)
              /\ engines'["a"].log = <<>>]_vars

(* An engine that buffered a report without a timestamp while             *)
(* Uninitialized has just become Live by an input with one: it has applied *)
(* that report alone and the buffer holds both.                           *)
C31_Witness ==
    /\ E.initialized
    /\ E.op.name = "input" /\ ~E.op.wasLive
    /\ E.nInputs >= 2 /\ ~E.allStamped
    /\ Len(E.log) = 1 /\ E.log[1].packet = E.op.packet
    /\ Len(E.buffer.buffer) = E.nInputs

(* C34: no report is applied twice, so the observations applied (those of *)
(* the most recent call and, if there was one, the one applied last       *)
(* before it) never outnumber the reports input has received, and neither *)
(* do the heading samples in the intent window.                           *)
C34_AppliedAtMostOnce ==
    /\ Len(E.log) + (IF E.prevApplied # 0 THEN 1 ELSE 0) <= E.nInputs
    /\ Len(E.intent) <= E.nInputs

(* The states in the order of decreasing trust. *)
Rank(state) ==
    CASE state = "REAL" -> 0
      [] state = "COASTING" -> 1
      [] state = "PREDICTED" -> 2
      [] state = "FROZEN" -> 3

(* C36: a step of a Live engine that applies no observation never moves   *)
(* the state back towards REAL: the state goes REAL, COASTING, PREDICTED,  *)
(* FROZEN, and only a step that applies an observation returns it.         *)
C36_StateOnlyDegrades ==
    [][(E.initialized /\ engines'["a"].log = <<>>) =>
          Rank(getState(engines'["a"].confidence)) >= Rank(getState(E.confidence))]_vars

(* A tick that applied nothing has taken the state from COASTING to       *)
(* PREDICTED or to FROZEN.                                                *)
C36_Witness ==
    /\ E.op.name = "tick" /\ E.op.wasLive /\ E.log = <<>>
    /\ getState(E.op.drained[1]) = "COASTING"
    /\ getState(E.confidence) \in {"PREDICTED", "FROZEN"}

(* C37: a tick of a Live engine that drains no report and leaves the      *)
(* state FROZEN leaves the pose as it was but for the speed, which is 0.  *)
C37_FrozenTickOnlyZeroesSpeed ==
    [][(/\ TickCall /\ E.initialized
        /\ engines'["a"].log = <<>>
        /\ getState(engines'["a"].confidence) = "FROZEN")
       => engines'["a"].currentPose = [E.currentPose EXCEPT !.speed = 0]]_vars

(* A tick that drained nothing has frozen an engine that was moving: the  *)
(* pose's speed went from positive to 0.                                  *)
C37_Witness ==
    /\ E.op.name = "tick" /\ E.op.wasLive /\ E.log = <<>>
    /\ E.op.now > E.op.lastTickBefore
    /\ getState(E.confidence) = "FROZEN"
    /\ E.op.drained[2].speed > 0
    /\ E.currentPose.speed = 0
    /\ E.physics.currentSpeed > 0

(* C38: lastTickTime never decreases, whatever now a tick is given, and a *)
(* tick advances the confidence clock by no more than now less the        *)
(* lastTickTime it found; the dt applied then telescope, and their total *)
(* is at most the span from the bootstrap to the largest now seen.       *)
C38_TickClockMonotone ==
    [][/\ engines'["a"].lastTickTime >= E.lastTickTime
       /\ (TickCall /\ E.initialized) =>
             engines'["a"].confidence.currentTime
                 - engines'["a"].op.drained[1].currentTime
               <= engines'["a"].op.now - engines'["a"].op.lastTickBefore]_vars

(* The clock has not moved since the engine was built, so no tick was    *)
(* given a now beyond the bootstrap time, yet the confidence has aged.   *)
C38_DtBeyondSpan ==
    /\ clock = ClockStart
    /\ E.op.name = "tick"
    /\ E.confidence.currentTime > E.confidence.lastUpdateTime

----------------------------------------------------------------------------
(* Properties of the buffer, checked under SpecBuffer and SpecBareBuffer. *)

PushCall == engines'["a"].op.name = "push"

PopCall == engines'["a"].op.name = "pop"

(* How many times a sequence holds x. *)
Count(seq, x) == Cardinality({i \in 1..Len(seq) : seq[i] = x})

SortedByTimestamp(seq) ==
    \A i \in 1..(Len(seq) - 1) : SortKey(seq[i]) <= SortKey(seq[i + 1])

(* The report that sorts first among those of a sequence and x. *)
Smallest(seq, x) ==
    CHOOSE m \in {seq[i] : i \in 1..Len(seq)} \cup {x} :
        \A y \in {seq[i] : i \in 1..Len(seq)} \cup {x} : SortKey(m) <= SortKey(y)

(* C27 as stated: push of a report stamped before the watermark changes   *)
(* nothing, and push of any other report leaves the watermark and adds    *)
(* the report to the buffer.                                              *)
C27_PushInsertsUnlessStale ==
    [][PushCall =>
          LET packet == engines'["a"].op.packet
              before == E.buffer
              after  == engines'["a"].buffer
          IN  IF packet.timestamp < before.lastProcessedTimestamp
              THEN after = before
              ELSE /\ after.lastProcessedTimestamp = before.lastProcessedTimestamp
                   /\ packet \in {after.buffer[i] : i \in 1..Len(after.buffer)}
                   /\ Len(before.buffer) < maxBufferSize =>
                          Count(after.buffer, packet) = Count(before.buffer, packet) + 1]_vars

(* C27: push of a report stamped before the watermark changes nothing;    *)
(* push of any other report leaves the watermark and adds the report to   *)
(* the buffer, unless the buffer holds maxBufferSize reports and the new  *)
(* one sorts before them all: then it is the one trimmed and nothing      *)
(* changes.  A full buffer that takes the report loses its first one.     *)
C27_PushFiltersByWatermark ==
    [][PushCall =>
          LET packet == engines'["a"].op.packet
              before == E.buffer
              after  == engines'["a"].buffer
          IN  IF packet.timestamp < before.lastProcessedTimestamp
              THEN after = before
              ELSE /\ after.lastProcessedTimestamp = before.lastProcessedTimestamp
                   /\ IF Len(before.buffer) < maxBufferSize
                      THEN Count(after.buffer, packet) = Count(before.buffer, packet) + 1
                      ELSE IF SortKey(packet) < SortKey(Head(before.buffer))
                           THEN after.buffer = before.buffer
                           ELSE /\ packet \in {after.buffer[i] : i \in 1..Len(after.buffer)}
                                /\ after.buffer =
                                       InsertStable(Tail(before.buffer), packet)]_vars

(* The older report has been pushed after the newer one was popped, and   *)
(* it is not in the buffer, which holds other reports.                   *)
C27_Witness ==
    /\ E.op.name = "push"
    /\ E.op.packet.timestamp < E.buffer.lastProcessedTimestamp
    /\ E.buffer.buffer # <<>>
    /\ Count(E.buffer.buffer, E.op.packet) = 0

(* C28: after every push and pop the buffer is sorted by timestamp        *)
(* ascending; pop of a non-empty buffer removes and returns the report    *)
(* with the smallest timestamp and sets the watermark to that timestamp;  *)
(* pop of an empty buffer returns none and changes nothing.               *)
C28_SortedAndPopTakesSmallest ==
    [][/\ (PushCall \/ PopCall) => SortedByTimestamp(engines'["a"].buffer.buffer)
       /\ PopCall =>
              LET next   == engines'["a"].op.packet
                  before == E.buffer
                  after  == engines'["a"].buffer
              IN  IF before.buffer = <<>>
                  THEN next = <<>> /\ after = before
                  ELSE /\ next = Head(before.buffer)
                       /\ \A i \in 1..Len(before.buffer) :
                              SortKey(next) <= SortKey(before.buffer[i])
                       /\ after.buffer = Tail(before.buffer)
                       /\ after.lastProcessedTimestamp = next.timestamp]_vars

(* C29: no push leaves more than maxBufferSize reports in the buffer; a   *)
(* push accepted by a buffer that holds maxBufferSize reports leaves it   *)
(* with the same reports and the new one, less the one among them that    *)
(* sorts first.                                                           *)
C29_CapacityAndEviction ==
    [][PushCall =>
          LET packet == engines'["a"].op.packet
              before == E.buffer
              after  == engines'["a"].buffer
          IN  /\ Len(after.buffer) <= maxBufferSize
              /\ (/\ Len(before.buffer) = maxBufferSize
                  /\ packet.timestamp >= before.lastProcessedTimestamp) =>
                     /\ Len(after.buffer) = maxBufferSize
                     /\ \A x \in BufferReports :
                            Count(after.buffer, x) =
                                Count(before.buffer, x)
                                    + (IF x = packet THEN 1 ELSE 0)
                                    - (IF x = Smallest(before.buffer, packet) THEN 1 ELSE 0)]_vars

(* The newer report has been pushed into a full buffer that held both     *)
(* kinds; the buffer is full and still holds both.                        *)
C29_Witness ==
    /\ E.op.name = "push" /\ E.op.full
    /\ E.op.packet.timestamp = ClockStart
    /\ E.op.packet.timestamp >= E.buffer.lastProcessedTimestamp
    /\ Len(E.buffer.buffer) = maxBufferSize
    /\ Cardinality({E.buffer.buffer[i] : i \in 1..Len(E.buffer.buffer)}) = 2

(* The timestamp push compares with the watermark: the report's own, or  *)
(* the wall clock when it was pushed, which in these specifications is   *)
(* the clock.                                                            *)
EffectiveTimestamp(packet) ==
    IF packet.timestamp # 0 THEN packet.timestamp ELSE clock

(* C35: no push or pop lowers the watermark, and after it every report in *)
(* the buffer has an effective timestamp not earlier than the watermark.  *)
C35_WatermarkMonotone ==
    [][/\ engines'["a"].buffer.lastProcessedTimestamp >= E.buffer.lastProcessedTimestamp
       /\ \A i \in 1..Len(engines'["a"].buffer.buffer) :
              EffectiveTimestamp(engines'["a"].buffer.buffer[i])
                  >= engines'["a"].buffer.lastProcessedTimestamp]_vars

----------------------------------------------------------------------------
(* Properties of a returned estimate, checked under SpecEstimate. *)

(* C24: the pose of an estimate getEstimate has returned keeps the values *)
(* it had when the call returned, whatever input and tick do afterwards.  *)
C24_EstimateIsSnapshot ==
    E.held.taken => E.held.estimate.pose = E.held.atCall.pose

(* The most recent call was a tick of a Live engine this many ms after   *)
(* the previous one (0: it was not).                                     *)
TickDtMs ==
    IF E.op.name = "tick" /\ E.op.wasLive /\ E.op.now > E.op.lastTickBefore
    THEN E.op.now - E.op.lastTickBefore
    ELSE 0

(* C25: every observation applied leaves uncertaintyRadius at the 5 m      *)
(* baseline; a tick with dt > 0 that is not FROZEN adds currentSpeed x 0.1 *)
(* x dt to what the drain left; and while the engine is Live and not      *)
(* FROZEN the radius is 5 m + 0.1 x currentSpeed x the time since the     *)
(* last observation was applied.                                          *)
C25_UncertaintyGrowth ==
    /\ \A i \in 1..Len(E.log) : E.log[i].poseAfter.uncertaintyRadius = BaseUncertaintyMm
    /\ (TickDtMs > 0 /\ getState(E.confidence) # "FROZEN") =>
           /\ E.currentPose.uncertaintyRadius =
                  E.op.drained[2].uncertaintyRadius
                      + TravelMm(E.physics.currentSpeed, TickDtMs) \div 10
           /\ E.log # <<>> => E.op.drained[2].uncertaintyRadius = BaseUncertaintyMm
    /\ (E.initialized /\ getState(E.confidence) # "FROZEN") =>
           E.currentPose.uncertaintyRadius =
               BaseUncertaintyMm
                   + TravelMm(E.physics.currentSpeed, Age(E.confidence)) \div 10

(* A report at 36 km/h has been applied and one tick a second later has   *)
(* left the radius at 6 m in state REAL.                                  *)
C25_Witness ==
    /\ TickDtMs = 1000
    /\ E.physics.currentSpeed = 10000
    /\ E.currentPose.uncertaintyRadius = 6000
    /\ getState(E.confidence) = "REAL"

----------------------------------------------------------------------------
(* Properties of the controller's scheduling, checked under SpecCtl. *)

(* C8: from the return of stop() until start() is called again, no step   *)
(* ticks an engine and forwards its pose to the adapter.                  *)
C8_NoFrameWorkWhileStopped ==
    [][(sched.stopped /\ sched'.stopped) => adapter'.positions = adapter.positions]_vars

StartCall == sched'.calls = sched.calls + 1 /\ sched'.last = "start"

StopCall == sched'.calls = sched.calls + 1 /\ sched'.last = "stop"

NoDuplicates(s) == \A i, j \in 1..Len(s) : s[i] = s[j] => i = j

(* C9: start() while the controller holds a handle schedules nothing and  *)
(* keeps the handle; stop() while it holds none cancels nothing; after    *)
(* stop() the handle is null; no handle is ever cancelled twice.          *)
C9_StartStopIdempotent ==
    [][/\ (StartCall /\ liveAnimationFrameId # 0) =>
              UNCHANGED <<liveAnimationFrameId, pending, nextHandle>>
       /\ (StopCall /\ liveAnimationFrameId = 0) =>
              (UNCHANGED <<liveAnimationFrameId, pending>>
               /\ sched'.cancelled = sched.cancelled)
       /\ StopCall => liveAnimationFrameId' = 0
       /\ NoDuplicates(sched'.cancelled)]_vars

(* stop() has been called twice in a row, the first call cancelling the   *)
(* one handle there was.                                                  *)
C9_Witness ==
    /\ sched.prev = "stop" /\ sched.last = "stop"
    /\ Len(sched.cancelled) = 1
    /\ liveAnimationFrameId = 0
    /\ pending = {}

(* C40: at most one frame callback is pending, whether start() and stop() *)
(* are called between frames or from the adapter while a frame runs.      *)
C40_OnePendingCallback == Cardinality(pending) <= 1

----------------------------------------------------------------------------
(* Properties of the controller's registry, checked under SpecCtl. *)

(* C11: the registry holds an engine for exactly the ids that received an *)
(* update since they were last removed or cleared, and the engine of each *)
(* has received every one of those updates: a later update reuses the     *)
(* engine the first one created.                                          *)
C11_RegistryFollowsUpdates ==
    /\ DOMAIN engines = {id \in Ids : sched.updates[id] > 0}
    /\ \A id \in DOMAIN engines : engines[id].nInputs = sched.updates[id]

(* An id has been updated twice since it was registered, the second time  *)
(* on a Live engine, and another id has been registered and removed.      *)
C11_Witness ==
    /\ sched.call.name = "remove" /\ sched.call.id = "b" /\ sched.call.hit
    /\ DOMAIN engines = {"a"}
    /\ sched.updates["a"] = 2
    /\ engines["a"].initialized

UpdateCall(id) ==
    used' = used + 1 /\ sched'.call.name = "update" /\ sched'.call.id = id

RemoveCall(id) ==
    used' = used + 1 /\ sched'.call.name = "remove" /\ sched'.call.id = id

ClearCall == used' = used + 1 /\ sched'.call.name = "clear"

(* A step of a frame that ticks an engine and forwards its pose. *)
Forwarded == adapter'.positions = adapter.positions + 1

(* C12: remove(id) for an id the registry does not hold leaves the        *)
(* registry, every engine, the scheduling state and the frame in progress *)
(* as they were.                                                          *)
C12_RemoveAbsentIsNoOp ==
    [][\A id \in Ids :
          (RemoveCall(id) /\ id \notin DOMAIN engines) =>
              UNCHANGED <<engines, order, liveAnimationFrameId, lastLiveFrameTime,
                          pending, nextHandle, frame, adapter>>]_vars

(* remove has been called for an id the registry did not hold, while it   *)
(* held another id and a frame was scheduled.                             *)
C12_Witness ==
    /\ sched.call.name = "remove" /\ sched.call.id = "b" /\ ~sched.call.hit
    /\ DOMAIN engines = {"a"}
    /\ liveAnimationFrameId # 0
    /\ pending # {}

(* C13: a frame ticks and forwards only ids that received an update since *)
(* they were last removed or cleared; remove(id) leaves every other       *)
(* engine in the registry and unchanged; remove and clear leave the       *)
(* scheduling handle and the scheduled callbacks as they were.            *)
C13_RemovedIsNotForwarded ==
    [][/\ Forwarded => sched.updates[adapter'.position[1]] > 0
       /\ \A id \in Ids :
              (sched.updates[id] = 0 /\ sched'.updates[id] = 0) => id \notin DOMAIN engines'
       /\ \A id \in Ids :
              RemoveCall(id) =>
                  \A other \in DOMAIN engines \ {id} :
                      other \in DOMAIN engines' /\ engines'[other] = engines[other]
       /\ ((\E id \in Ids : RemoveCall(id)) \/ ClearCall) =>
              UNCHANGED <<liveAnimationFrameId, pending>>]_vars

(* Inside a frame that has forwarded one entity, remove has taken the     *)
(* other entity, which the frame had still to visit, out of the registry. *)
C13_Witness ==
    /\ sched.call.name = "remove" /\ sched.call.id = "b" /\ sched.call.hit
    /\ frame.active /\ frame.forwarded = 1 /\ frame.todo = <<>>
    /\ adapter.position[1] = "a"
    /\ DOMAIN engines = {"a"}
    /\ liveAnimationFrameId # 0

(* C18: update(report) for an id and the tick of an id's engine in a      *)
(* frame leave the engine of every other id exactly as it was.            *)
C18_EntitiesIndependent ==
    [][/\ \A id \in Ids :
              UpdateCall(id) =>
                  \A other \in DOMAIN engines \ {id} : engines'[other] = engines[other]
       /\ Forwarded =>
              \A other \in DOMAIN engines \ {adapter'.position[1]} :
                  engines'[other] = engines[other]]_vars

(* In a frame, one Live engine has been ticked over a positive interval   *)
(* and the other Live engine has not been visited yet.                    *)
C18_Witness ==
    /\ frame.active /\ frame.forwarded = 1 /\ Len(frame.todo) = 1
    /\ DOMAIN engines = {"a", "b"}
    /\ engines["a"].initialized /\ engines["b"].initialized
    /\ engines[adapter.position[1]].lastTickTime
           > engines[Head(frame.todo)].lastTickTime

Range(seq) == {seq[i] : i \in 1..Len(seq)}

(* The step ticks one engine with the frame's now and forwards the pose   *)
(* the tick left, position and heading.                                   *)
ForwardsPostTickPose ==
    LET id == adapter'.position[1]
    IN  /\ id \in DOMAIN engines
        /\ engines'[id] = EngineTick(engines[id], frame.now, clock)
        /\ adapter'.position = <<id, getEstimate(engines'[id]).pose.lat,
                                     getEstimate(engines'[id]).pose.lng>>
        /\ adapter'.rotation = <<id, getEstimate(engines'[id]).pose.heading>>

(* The frame callback returns. *)
FrameReturns == frame.active /\ ~frame'.active

----------------------------------------------------------------------------
(* Properties of what the frames forward, checked under SpecCtl. *)

(* The time, in ms since the last report, after which the README's        *)
(* prediction window says an entity is frozen: 5 s + 10 s.                *)
FreezeAfterMs == DEFAULT_POLICY.fullConfidenceMs + DEFAULT_POLICY.decayMs

(* C16: with the default policy, a frame that finds a Live engine more    *)
(* than 15 s past its last report, and applies no new report, forwards    *)
(* the position the engine already had.                                   *)
C16_FrozenAfterFifteenSeconds ==
    [][Forwarded =>
          LET id == adapter'.position[1]
          IN  (/\ policy = DEFAULT_POLICY
               /\ engines[id].initialized
               /\ Age(engines[id].confidence) > FreezeAfterMs
               /\ engines'[id].log = <<>>)
              => (/\ adapter'.position[2] = engines[id].currentPose.lat
                  /\ adapter'.position[3] = engines[id].currentPose.lng)]_vars

(* C17: every entity a frame forwards has been given a report, so its     *)
(* engine is Live and the position forwarded is not the default pose.     *)
C17_UntimestampedIsTracked ==
    [][Forwarded =>
          LET id == adapter'.position[1]
          IN  engines[id].nInputs > 0 =>
                  (/\ engines'[id].initialized
                   /\ <<adapter'.position[2], adapter'.position[3]>> # <<0, 0>>)]_vars

(* C39: the engine whose pose a frame forwards has applied at least one   *)
(* report: it is Live, so the pose is not the one it was constructed with.*)
C39_ForwardsOnlyAppliedReports ==
    [][Forwarded =>
          LET engine == engines'[adapter'.position[1]]
          IN  /\ engine.initialized
              /\ engine.prevApplied # 0 \/ engine.log # <<>>]_vars

----------------------------------------------------------------------------
(* Properties of the intent window, checked under SpecIntent. *)

(* The headings the observations of a log carry, in the order applied. *)
RECURSIVE HeadingsOf(_)
HeadingsOf(log) ==
    IF log = <<>> THEN <<>>
    ELSE (IF Head(log).packet.bearing # NoBearing
          THEN <<Head(log).packet.bearing>> ELSE <<>>) \o HeadingsOf(Tail(log))

LastN(seq, n) == IF Len(seq) <= n THEN seq ELSE SubSeq(seq, Len(seq) - n + 1, Len(seq))

(* C19: the window never holds more than 5 headings; after every call it  *)
(* is the last 5 of what it held followed by the headings of the reports  *)
(* the call applied, in the order applied (a report without a bearing     *)
(* adds nothing); with fewer than 2 headings the intent is {UNKNOWN, 0}.  *)
C19_WindowIsLastFiveHeadings ==
    [][/\ Len(E'.intent) <= 5
       /\ used' = used + 1 =>
              E'.intent = LastN(E.intent \o HeadingsOf(E'.log), 5)
       /\ Len(E'.intent) < 2 =>
              (/\ getEstimate(E').intent.action = "UNKNOWN"
               /\ getEstimate(E').intent.confidence.num = 0)]_vars

(* A tick has applied five reports with headings and one without to an    *)
(* engine whose window already held a heading: the oldest was evicted.    *)
C19_Witness ==
    /\ E.op.name = "tick"
    /\ E.prevApplied # 0
    /\ Len(E.log) = 6
    /\ Len(HeadingsOf(E.log)) = 5
    /\ E.intent = HeadingsOf(E.log)
    /\ \E i, j \in 1..5 : E.intent[i] # E.intent[j]

(* The window holds at least 2 headings, all the same. *)
ConstantWindow ==
    /\ Len(E.intent) >= 2
    /\ \A i \in 1..Len(E.intent) : E.intent[i] = E.intent[1]

----------------------------------------------------------------------------
(* Properties of the circular variance, checked under SpecWindow. *)

(* The headings of a window are n >= 2 distinct directions a full turn / n *)
(* apart.                                                                  *)
UniformlySpread(w) ==
    LET n == Len(w)
    IN  /\ n >= 2
        /\ 360 % n = 0
        /\ Cardinality({w[i] % 360 : i \in 1..n}) = n
        /\ {w[i] % 360 : i \in 1..n}
               = {(w[1] + k * (360 \div n)) % 360 : k \in 0..(n - 1)}

----------------------------------------------------------------------------
(* Properties of the VehicleLike-based controller, checked under          *)
(* SpecLegacy.                                                            *)

UpdateVehicleCall == used' = used + 1 /\ legacyCall'.name = "updateVehicle"

AnimateCall == used' = used + 1 /\ legacyCall'.name = "animate"

(* An alert that is neither "Turn On" nor "Turn Off". *)
OtherAlert(vehicle) ==
    /\ vehicle.msg_class = "Alert"
    /\ vehicle.alert # "Turn On" /\ vehicle.alert # "Turn Off"

(* C22: updateVehicle with such an alert for a vehicle already tracked    *)
(* leaves its live state (last and previous fix, speed, target bearing,   *)
(* stopped flag, virtual position, visual bearing) unchanged.             *)
C22_OtherAlertIsIgnored ==
    [][(/\ UpdateVehicleCall
        /\ legacyCall'.tracked
        /\ OtherAlert(legacyCall'.vehicle))
       => liveVehicles'[legacyCall'.vehicle.id] = liveVehicles[legacyCall'.vehicle.id]]_vars

(* A "Door Open" alert from 2 km away has been given for a tracked,       *)
(* moving vehicle, whose virtual position is still at its last fix.       *)
C22_Witness ==
    /\ legacyCall.name = "updateVehicle" /\ legacyCall.tracked
    /\ OtherAlert(legacyCall.vehicle)
    /\ "a" \in DOMAIN liveVehicles
    /\ ~liveVehicles["a"].isStopped
    /\ liveVehicles["a"].speed > 0
    /\ haversineDistance(liveVehicles["a"].virtualPosition,
                         [lat |-> legacyCall.vehicle.lat, lon |-> legacyCall.vehicle.lng]) > 500

(* The README's stopped state: speed below 1 km/h, ignition reported off, *)
(* or a "Turn Off" alert.                                                 *)
StoppedAsDocumented(vehicle) ==
    \/ vehicle.speed < 1
    \/ vehicle.engine_status \in {"OFF", "off", "false", "0"}
    \/ (vehicle.msg_class = "Alert" /\ vehicle.alert = "Turn Off")

(* C23: a frame moves the virtual position of a vehicle whose last fix    *)
(* reported it stopped no further from that fix, in latitude and in       *)
(* longitude, and leaves the bearing it forwards as it was.               *)
C23_StoppedIsNotExtrapolated ==
    [][AnimateCall =>
          \A id \in DOMAIN liveVehicles :
              StoppedAsDocumented(liveVehicles[id].fix) =>
                  LET before == liveVehicles[id]
                      after  == liveVehicles'[id]
                  IN  /\ Abs(after.virtualPosition.lat - before.lastFix.lat)
                             <= Abs(before.virtualPosition.lat - before.lastFix.lat)
                      /\ Abs(after.virtualPosition.lon - before.lastFix.lon)
                             <= Abs(before.virtualPosition.lon - before.lastFix.lon)
                      /\ after.bearing = before.bearing]_vars

----------------------------------------------------------------------------
(* Properties of the age of the data, checked under SpecAge, where the    *)
(* timestamp of a report is the time input received it.                   *)

(* When the report applied most recently was received. *)
LastAppliedReceivedAt ==
    IF E.log # <<>> THEN E.log[Len(E.log)].packet.timestamp ELSE E.prevApplied

(* A tick of a Live engine has just returned. *)
JustTicked == E.op.name = "tick" /\ E.op.wasLive /\ E.op.now = clock

(* C33: when a tick of a Live engine returns, the age the state is        *)
(* computed from is at most the time since the report applied most        *)
(* recently was received; so a tick that applies a report received less   *)
(* than fullConfidenceMs before it leaves the state REAL.                 *)
C33_AgeIsSinceLastReport ==
    JustTicked =>
        /\ Age(E.confidence) <= clock - LastAppliedReceivedAt
        /\ (E.log # <<>> /\ clock - LastAppliedReceivedAt < E.confidence.policy.fullConfidenceMs)
               => getState(E.confidence) = "REAL"

----------------------------------------------------------------------------
(* Properties of the Google adapter, checked under SpecGoogle. *)

(* The vehicle messages without a course that adaptToInput maps to a report. *)
CourselessFor(packet) ==
    {vehicle \in GoogleVehicles :
        /\ vehicle.course = Missing
        /\ adaptToInput(vehicle, vehicle.lat, vehicle.lng, vehicle.id) = packet}

(* C32: a vehicle message without a course becomes a report without a     *)
(* bearing, one without a speed a report of speed 0, and applying the      *)
(* report of a message without a course leaves the heading of the pose     *)
(* and the heading the physics model holds as they were.                  *)
C32_MissingCourseKeepsHeading ==
    /\ \A vehicle \in GoogleVehicles :
           LET input == adaptToInput(vehicle, vehicle.lat, vehicle.lng, vehicle.id)
           IN  /\ vehicle.course = Missing => input.bearing = NoBearing
               /\ vehicle.speed = Missing => input.speedKmh = 0
    /\ "a" \in DOMAIN engines =>
           \A i \in 1..Len(engines["a"].log) :
               CourselessFor(engines["a"].log[i].packet) # {} =>
                   /\ engines["a"].log[i].poseAfter.heading
                          = engines["a"].log[i].poseBefore.heading
                   /\ engines["a"].log[i].physAfter.currentHeading
                          = engines["a"].log[i].physBefore.currentHeading

====
